---- MODULE Spec2Model ----
(***************************************************************************)
(* Acquisition-and-deduplication core of the job scraper:                  *)
(*   scrapers.py  - response cache, fetch_url, source tasks,               *)
(*                  deduplicate_jobs, scrape_all_portals                   *)
(*   database.py  - generate_job_id, job_exists, find_similar_job,         *)
(*                  insert_job, insert_jobs_bulk                           *)
(* Text is modelled as a sequence of characters so that lower-casing and   *)
(* trimming are real conversions.                                          *)
(***************************************************************************)
EXTENDS Integers, Sequences, FiniteSets, TLC

\* ------------------------------------------------------------------------
\* Bounds of the model
\* ------------------------------------------------------------------------
MaxJobs == 3
MaxTime == 2
NUrls == 1
MaxStored == 2
MaxFrags == 2
MaxOps == 2
MaxFetches == 3
NCallers == 2
MaxRequests == 3
MaxRows == 3
MaxEnrich == 2
MaxBulk == 2
MaxStarts == 3
MaxPipelines == 2

\* ------------------------------------------------------------------------
\* Text: str.lower() and str.strip()
\* ------------------------------------------------------------------------
None == <<"None">>

LowerChar(c) ==
  CASE c = "A" -> "a"
    [] c = "B" -> "b"
    [] c = "C" -> "c"
    [] c = "E" -> "e"
    [] c = "F" -> "f"
    [] c = "I" -> "i"
    [] c = "K" -> "k"
    [] c = "L" -> "l"
    [] c = "M" -> "m"
    [] c = "N" -> "n"
    [] c = "P" -> "p"
    [] c = "R" -> "r"
    [] c = "S" -> "s"
    [] c = "X" -> "x"
    [] OTHER -> c

lower(s) == [i \in 1..Len(s) |-> LowerChar(s[i])]

RECURSIVE lstrip(_)
lstrip(s) == IF s # <<>> /\ Head(s) = " " THEN lstrip(Tail(s)) ELSE s

RECURSIVE rstrip(_)
rstrip(s) ==
  IF s # <<>> /\ s[Len(s)] = " " THEN rstrip(SubSeq(s, 1, Len(s) - 1)) ELSE s

strip(s) == rstrip(lstrip(s))

\* ------------------------------------------------------------------------
\* scrapers.py: deduplicate_jobs
\* ------------------------------------------------------------------------
\* job.get("location") or ""
LocationOrEmpty(job) == IF job.location = None THEN <<>> ELSE job.location

DedupKey(job) ==
  << strip(lower(job.company)), strip(lower(job.role)),
     strip(lower(LocationOrEmpty(job))) >>

\* a plausible slip: the key is built from the raw fields
DedupKeyRaw(job) == << job.company, job.role, LocationOrEmpty(job) >>

RECURSIVE DedupLoop(_, _, _, _)
DedupLoop(jobs, i, seen, unique) ==
  IF i > Len(jobs) THEN unique
  ELSE IF DedupKey(jobs[i]) \notin seen
       THEN DedupLoop(jobs, i + 1, seen \cup {DedupKey(jobs[i])},
                      Append(unique, jobs[i]))
       ELSE DedupLoop(jobs, i + 1, seen, unique)

RECURSIVE DedupLoopRaw(_, _, _, _)
DedupLoopRaw(jobs, i, seen, unique) ==
  IF i > Len(jobs) THEN unique
  ELSE IF DedupKeyRaw(jobs[i]) \notin seen
       THEN DedupLoopRaw(jobs, i + 1, seen \cup {DedupKeyRaw(jobs[i])},
                         Append(unique, jobs[i]))
       ELSE DedupLoopRaw(jobs, i + 1, seen, unique)

deduplicate_jobs_rawkey(jobs) == DedupLoopRaw(jobs, 1, {}, <<>>)

deduplicate_jobs(jobs) == DedupLoop(jobs, 1, {}, <<>>)

\* ------------------------------------------------------------------------
\* Texts of the job records used with the store
\* ------------------------------------------------------------------------
T_LinkedIn == << "L", "i", "n", "k", "e", "d", "I", "n" >>
T_Indeed == << "I", "n", "d", "e", "e", "d" >>
T_Naukri == << "N", "a", "u", "k", "r", "i" >>
T_Acme == << "A", "c", "m", "e" >>
T_AcmeLower == << "a", "c", "m", "e" >>
T_SeniorPM == << "S", "e", "n", "i", "o", "r", " ", "P", "r", "o", "d", "u", "c", "t", " ", "M", "a", "n", "a", "g", "e", "r" >>
T_SrPM == << "S", "r", ".", " ", "P", "r", "o", "d", "u", "c", "t", " ", "M", "a", "n", "a", "g", "e", "r" >>
T_Pune == << "P", "u", "n", "e" >>
T_AcmeBank == << "A", "c", "m", "e", " ", "B", "a", "n", "k" >>
T_AcmeBankUpper == << "A", "C", "M", "E", " ", "B", "A", "N", "K" >>
T_PM == << "P", "r", "o", "d", "u", "c", "t", " ", "M", "a", "n", "a", "g", "e", "r" >>
T_PMFintech == << "P", "r", "o", "d", "u", "c", "t", " ", "M", "a", "n", "a", "g", "e", "r", " ", "(", "F", "i", "n", "t", "e", "c", "h", ")" >>
T_Bengaluru == << "B", "e", "n", "g", "a", "l", "u", "r", "u" >>
T_BengaluruLower == << "b", "e", "n", "g", "a", "l", "u", "r", "u" >>
T_PuneLower == << "p", "u", "n", "e" >>
T_NoneText == << "N", "o", "n", "e" >>
T_Colon == << ":" >>

\* ------------------------------------------------------------------------
\* database.py: generate_job_id, job_exists, normalize_location
\* ------------------------------------------------------------------------
\* f"{x}" of a value that may be None
FormatText(x) == IF x = None THEN T_NoneText ELSE x

\* sha256(raw)[:16] is modelled by raw itself: equal raw texts give equal ids,
\* different raw texts different ids
generate_job_id(portal, company, role, location) ==
  strip(lower(FormatText(portal) \o T_Colon \o FormatText(company) \o T_Colon
              \o FormatText(role) \o T_Colon \o FormatText(location)))

\* a plausible slip: the lookup compares the wrong column
job_exists_wrong_column(st, job_id) == \E r \in st : r.role = job_id

job_exists(st, job_id) == \E r \in st : r.job_id = job_id

\* "pattern in raw_lower"
Contains(s, pat) ==
  \E k \in 0..(Len(s) - Len(pat)) : SubSeq(s, k + 1, k + Len(pat)) = pat

normalize_location(raw_location) ==
  IF raw_location = None \/ raw_location = << >> THEN << >>
  ELSE IF Contains(lower(raw_location), T_PuneLower) THEN T_Pune
  ELSE IF Contains(lower(raw_location), T_BengaluruLower) THEN T_Bengaluru
  ELSE raw_location

\* ------------------------------------------------------------------------
\* database.py: find_similar_job, insert_job, insert_jobs_bulk
\* ------------------------------------------------------------------------
\* the names that the module scrapers defines at top level
ScrapersNames ==
  { "random_ua", "random_delay", "get_cache_path", "get_cached", "set_cache",
    "fetch_url", "fetch_with_selenium", "check_portal_health",
    "scrape_linkedin", "_parse_indeed_initial_data", "_parse_relative_date",
    "scrape_indeed", "_naukri_ld_json_to_job", "_parse_naukri_json",
    "scrape_naukri", "scrape_hiringcafe", "scrape_angellist",
    "_iimjobs_ld_json_to_job", "_parse_iimjobs_nextdata", "scrape_iimjobs",
    "SCRAPER_MAP", "deduplicate_jobs", "scrape_all_portals" }

Returned(v) == [exc |-> "", value |-> v]
Raised(e) == [exc |-> e, value |-> None]

\* "from scrapers import a, b": ImportError unless scrapers defines the names
FromScrapersImport(names) ==
  IF names \subseteq ScrapersNames THEN Returned(None) ELSE Raised("ImportError")

\* The import in the first statement of find_similar_job names two functions
\* that scrapers does not define, so every call ends there with ImportError;
\* the statements after it (the scan of the 2000 most recent rows) are never
\* reached.
find_similar_job(st, company, role, location) ==
  LET imported == FromScrapersImport({ "_normalize_company_name", "_fuzzy_role_match" })
  IN  CASE imported.exc # "" -> imported

JobIdOf(job) ==
  IF job.job_id # None THEN job.job_id
  ELSE generate_job_id(job.portal, job.company, job.role, job.location)

\* SQL NULL in a column
Null == "<NULL>"

\* the row that the INSERT of insert_job writes; the columns it does not
\* name get their defaults
NewRow(job, t) ==
  [job_id |-> JobIdOf(job), portal |-> job.portal, company |-> job.company,
   role |-> job.role,
   location |-> IF job.location = None \/ job.location = << >> THEN job.location
                ELSE normalize_location(job.location),
   date_found |-> t,
   applied_status |-> 0, date_sent_in_digest |-> Null, applied_date |-> Null,
   user_notes |-> Null, follow_up_date |-> Null, rejection_reason |-> Null,
   poster_name |-> Null, poster_email |-> Null, poster_phone |-> Null,
   poster_linkedin |-> Null, hidden |-> 0]

\* ------------------------------------------------------------------------
\* database.py: the UPDATE operations on job_listings
\* ------------------------------------------------------------------------
\* "UPDATE job_listings SET ... WHERE job_id = ?": f gives the new row
UpdateWhere(st, job_id, f(_)) ==
  { IF r.job_id = job_id THEN f(r) ELSE r : r \in st }

RECURSIVE mark_sent_in_digest(_, _, _)
mark_sent_in_digest(st, job_ids, t) ==
  IF job_ids = << >> THEN st
  ELSE LET SetSent(r) == [r EXCEPT !.date_sent_in_digest = t]
       IN  mark_sent_in_digest(UpdateWhere(st, Head(job_ids), SetSent), Tail(job_ids), t)

update_applied_status(st, job_id, status, notes, follow_up_date, rejection_reason, t) ==
  IF status = 1 /\ follow_up_date = Null
  THEN LET SetApplied(r) == [r EXCEPT !.applied_status = status, !.applied_date = t,
                                     !.user_notes = notes]
       IN  UpdateWhere(st, job_id, SetApplied)
  ELSE IF status = 6 /\ rejection_reason # Null
  THEN LET SetRejected(r) == [r EXCEPT !.applied_status = status,
                                      !.rejection_reason = rejection_reason,
                                      !.user_notes = notes]
       IN  UpdateWhere(st, job_id, SetRejected)
  ELSE LET SetStatus(r) ==
             [r EXCEPT !.applied_status = status, !.user_notes = notes,
                       !.follow_up_date = IF follow_up_date # Null THEN follow_up_date
                                          ELSE r.follow_up_date]
       IN  UpdateWhere(st, job_id, SetStatus)

update_job_contacts(st, job_id, poster_name, poster_email, poster_phone, poster_linkedin) ==
  LET SetContacts(r) == [r EXCEPT !.poster_name = poster_name, !.poster_email = poster_email,
                                  !.poster_phone = poster_phone,
                                  !.poster_linkedin = poster_linkedin]
  IN  UpdateWhere(st, job_id, SetContacts)

hide_job(st, job_id, hidden) ==
  LET SetHidden(r) == [r EXCEPT !.hidden = IF hidden THEN 1 ELSE 0]
  IN  UpdateWhere(st, job_id, SetHidden)

\* a plausible slip: the UPDATE names the column role instead of user_notes
update_job_notes_sets_role(st, job_id, notes) ==
  LET SetRole(r) == [r EXCEPT !.role = << notes >>]
  IN  UpdateWhere(st, job_id, SetRole)

update_job_notes(st, job_id, notes) ==
  LET SetNotes(r) == [r EXCEPT !.user_notes = notes]
  IN  UpdateWhere(st, job_id, SetNotes)

\* insert_job(job) on the store st at time t: the value returned or the
\* exception raised, and the store afterwards
insert_job(st, job, t) ==
  LET job_id == JobIdOf(job) IN
    IF job_exists(st, job_id)
    THEN [exc |-> "", ret |-> FALSE, store |-> st]
    ELSE LET similar == find_similar_job(st, job.company, job.role, job.location) IN
         IF similar.exc # ""
         THEN [exc |-> similar.exc, ret |-> FALSE, store |-> st]
         ELSE IF similar.value # None /\ similar.value # job_id
         THEN [exc |-> "", ret |-> FALSE, store |-> st]
         ELSE [exc |-> "", ret |-> TRUE, store |-> st \cup { NewRow(job, t) }]

\* insert_jobs_bulk(jobs): the loop from index i on; an exception of
\* insert_job ends the loop and leaves the function
RECURSIVE BulkLoop(_, _, _, _, _, _)
BulkLoop(st, jobs, i, inserted, skipped, t) ==
  IF i > Len(jobs)
  THEN [exc |-> "", inserted |-> inserted, skipped |-> skipped, store |-> st]
  ELSE LET r == insert_job(st, jobs[i], t) IN
       IF r.exc # ""
       THEN [exc |-> r.exc, inserted |-> inserted, skipped |-> skipped, store |-> r.store]
       ELSE IF r.ret
       THEN BulkLoop(r.store, jobs, i + 1, inserted + 1, skipped, t)
       ELSE BulkLoop(r.store, jobs, i + 1, inserted, skipped + 1, t)

insert_jobs_bulk(st, jobs, t) == BulkLoop(st, jobs, 1, 0, 0, t)

\* ------------------------------------------------------------------------
\* State
\* ------------------------------------------------------------------------
VARIABLES
  dd_in,      \* deduplicate_jobs: the argument list
  dd_out,     \* deduplicate_jobs: the returned list
  dd_pc,      \* "idle" before the call, "done" after it returned
  cfg,        \* config: scraping.cache_expiry_hours, scraping.max_retries,
              \*         portals.indeed.use_selenium
  now,        \* time.time(), in hours
  cache,      \* the cache directory: url -> file (body, mtime) or no file
  fetched_ok, \* history: urls for which some fetch attempt has succeeded
  s_pc,       \* position of the source task (run_scraper / scrape_indeed)
  s_i,        \* index of the url of the current loop iteration
  s_jobs,     \* scrape_indeed: the local list jobs
  s_hist,     \* history: per finished fetch of this run, its log and result
  f_attempt,  \* fetch_url: the loop variable attempt (0: no attempt made)
  f_log,      \* history: outcomes of the attempts of the current fetch_url
  f_result,   \* fetch_url: the returned value
  f_entry0,   \* history: the cache file of the url when fetch_url was called
  f_t0,       \* history: the time when fetch_url was called
  outcome,    \* run_scraper: (status, count) returned for the source
  store,      \* the rows of table job_listings
  db_last,    \* history: the latest insert_job call (job, result, store before)
  db_prev,    \* history: the insert_job call before the latest
  o_cfg,      \* config of the run: portals enabled, portals with base_url,
              \*                    scraping.thread_count
  o_pc,       \* position of scrape_all_portals and of the pipeline after it
  o_probes,   \* history: the health checks made, in order, with their results
  t_pc,       \* per portal: state of its future (none, queued, running, done)
  t_fn,       \* history, per portal: what its scraper function did
  t_ret,      \* per portal: the result held by its future
  o_first,    \* as_completed: futures found finished when the iteration began
  o_doneq,    \* as_completed: futures finished later, in completion order
  o_snap,     \* history: the futures found finished when the iteration began
  o_order,    \* history: the portals in the order their futures finished
  completed,  \* scrape_all_portals: the counter completed
  portal_results, \* scrape_all_portals: the outcome map
  all_jobs,   \* scrape_all_portals: the list all_jobs before deduplication
  cb_log,     \* history: the calls of progress_callback, in order
  o_batch,    \* the list returned by scrape_all_portals
  p_store0,   \* history: the store when the pipeline reached its store step
  p_bulk,     \* the pipeline's insert_jobs_bulk call: exception, counts
  scraper_status, \* app.py: running, phase and error of the status dictionary
  pg_items,   \* a response: the items of its embedded structured data
  pg_cards,   \* a response: its markup cards
  pg_pc,      \* "idle", or the extractor that was applied to the response
  pg_out,     \* the records the extractor added for the response
  c_pc,       \* per concurrent caller of insert_job: its next statement
  c_job,      \* per caller: the argument job
  c_res,      \* per caller: the exception raised and the value returned
  c_store0,   \* history, per caller: the table when the call began
  u_count,    \* number of store operations made
  u_last,     \* history: the latest store operation and the table before it
  tr_srv,     \* the server: its fixed response for each url
  tr_ttl,     \* scraping.cache_expiry_hours of the run with the cache enabled
  tr_now,     \* time.time(), in hours
  tr_cache,   \* the cache directory of each of the two runs (on, off)
  tr_ret,     \* the value the latest fetch_url returned in each run
  tr_jobs,    \* the records parsed from the returned bodies in each run
  tr_reqs,    \* history: the number of real requests of each run
  tr_calls,   \* the number of fetch_url calls made in each run
  k_n,        \* scrape_indeed: the number of (title, location, page) iterations
  k_i,        \* scrape_indeed: the number of the current iteration
  k_pc,       \* scrape_indeed: position inside the loop body
  k_html,     \* scrape_indeed: the local variable html
  k_jobs,     \* scrape_indeed: the local list jobs
  k_events,   \* history: the fetch_url and random_delay calls, in order
  r_issued,   \* history, per portal: the requests its task has issued, in order
  r_inflight, \* per portal: the requests of its task that await their response
  dj_table, \* job_listings as dedup_jobs reads it: job_id, company, role, relevance_score, date_found
  dj_calls, \* number of dedup_jobs calls made
  dj_ret,   \* the value the latest dedup_jobs call returned
  dj_before, \* history: the table before the latest dedup_jobs call
  mg_db,    \* the database file: whether job_listings exists, its columns, its rows
  mg_calls, \* number of init_db calls made
  mg_exc,   \* the exception the latest init_db call raised, or none
  mg_db0,   \* history: the database before the first init_db call
  cv_job,   \* cv_score: the job, by the skills and the words its role and description hold
  cv_data,  \* cv_score: the argument cv_data, None or its skills and the words of its raw_text
  cv_pc,    \* "idle", "ready" for a call, "scored" after it
  cv_ret,   \* the value the latest cv_score call returned
  cv_last,  \* history: the value returned before the latest addition of a skill, -1 if none
  e_jobs,   \* enrich_jobs_with_contacts: the argument list
  e_i,      \* index of the job of the next loop iteration
  e_results, \* the dictionary results, by job_id
  e_cache,  \* the dictionary company_cache, by cache key
  e_log,    \* history: the website and search lookups made, with the job they were made for
  e_pc,     \* "idle", "loop", or "returned"
  g_store,  \* job_listings as the gate finds it
  g_call,   \* history: the latest call of insert_job or insert_jobs_bulk on g_store
  ap_vercel, \* app.py: _IS_VERCEL
  ap_status, \* app.py: the dictionary scraper_status
  ap_pc,    \* position of each pipeline thread in _run_scraper_pipeline
  ap_batch, \* all_jobs of each pipeline thread
  ap_prefs, \* preferences of each pipeline thread: telegram and email configured
  ap_store, \* job_listings as the pipeline finds it
  ap_reqs,  \* number of start requests and scheduled triggers handled
  ap_resp   \* history: the answer to the latest start request or trigger

dedupVars == << dd_in, dd_out, dd_pc >>

storeVars == << store, db_last, db_prev >>

fetchVars == << cfg, now, cache, fetched_ok, s_pc, s_i, s_jobs, s_hist,
                f_attempt, f_log, f_result, f_entry0, f_t0, outcome >>

orchVars == << o_cfg, o_pc, o_probes, t_pc, t_fn, t_ret, o_first, o_doneq,
               o_snap, o_order, completed, portal_results, all_jobs, cb_log,
               o_batch, p_store0, p_bulk, scraper_status >>

parseVars == << pg_items, pg_cards, pg_pc, pg_out >>

concVars == << c_pc, c_job, c_res, c_store0 >>

opsVars == << u_count, u_last >>

transpVars == << tr_srv, tr_ttl, tr_now, tr_cache, tr_ret, tr_jobs, tr_reqs, tr_calls >>

loopVars == << k_n, k_i, k_pc, k_html, k_jobs, k_events >>

seqVars == << r_issued, r_inflight >>

djVars == << dj_table, dj_calls, dj_ret, dj_before >>

mgVars == << mg_db, mg_calls, mg_exc, mg_db0 >>

cvVars == << cv_job, cv_data, cv_pc, cv_ret, cv_last >>

enVars == << e_jobs, e_i, e_results, e_cache, e_log, e_pc >>

gateVars == << g_store, g_call >>

appVars == << ap_vercel, ap_status, ap_pc, ap_batch, ap_prefs, ap_store, ap_reqs, ap_resp >>

notDjVars == << dedupVars, fetchVars, storeVars, orchVars, parseVars,
    concVars, opsVars, transpVars, loopVars, seqVars,
                  mgVars,
                  cvVars,
                  enVars,
                  gateVars,
                  appVars >>

notMgVars == << dedupVars, fetchVars, storeVars, orchVars, parseVars,
    concVars, opsVars, transpVars, loopVars, seqVars,
    djVars,
                  cvVars,
                  enVars,
                  gateVars,
                  appVars >>

notCvVars == << dedupVars, fetchVars, storeVars, orchVars, parseVars,
    concVars, opsVars, transpVars, loopVars, seqVars,
    djVars, mgVars,
                  enVars,
                  gateVars,
                  appVars >>

notEnVars == << dedupVars, fetchVars, storeVars, orchVars, parseVars,
    concVars, opsVars, transpVars, loopVars, seqVars,
    djVars, mgVars, cvVars,
                  gateVars,
                  appVars >>

notGateVars == << dedupVars, fetchVars, storeVars, orchVars, parseVars,
    concVars, opsVars, transpVars, loopVars, seqVars,
    djVars, mgVars, cvVars, enVars,
                  appVars >>

notAppVars == << dedupVars, fetchVars, storeVars, orchVars, parseVars,
    concVars, opsVars, transpVars, loopVars, seqVars,
    djVars, mgVars, cvVars, enVars, gateVars >>

notDedupVars == << fetchVars, storeVars, orchVars, parseVars, concVars, opsVars,
                  transpVars,
                  loopVars, seqVars,
                  djVars,
                  mgVars,
                  cvVars,
                  enVars,
                  gateVars,
                  appVars >>

notFetchVars == << dedupVars, storeVars, orchVars, parseVars, concVars, opsVars,
                  transpVars,
                  loopVars, seqVars,
                  djVars,
                  mgVars,
                  cvVars,
                  enVars,
                  gateVars,
                  appVars >>

notStoreVars == << dedupVars, fetchVars, orchVars, parseVars, concVars, opsVars,
                  transpVars,
                  loopVars, seqVars,
                  djVars,
                  mgVars,
                  cvVars,
                  enVars,
                  gateVars,
                  appVars >>

notParseVars == << dedupVars, fetchVars, storeVars, orchVars, concVars, opsVars,
                  transpVars,
                  loopVars, seqVars,
                  djVars,
                  mgVars,
                  cvVars,
                  enVars,
                  gateVars,
                  appVars >>

\* what neither scrape_all_portals nor the store step of the pipeline touches
notOrchVars == << dedupVars, fetchVars, parseVars, concVars, opsVars,
                  transpVars,
                  loopVars, seqVars,
                  djVars,
                  mgVars,
                  cvVars,
                  enVars,
                  gateVars,
                  appVars >>

\* what concurrent insert_job calls leave alone (they share the table)
notConcVars == << dedupVars, fetchVars, orchVars, parseVars, opsVars, transpVars,
                 db_last, db_prev,
                  loopVars, seqVars,
                  djVars,
                  mgVars,
                  cvVars,
                  enVars,
                  gateVars,
                  appVars >>

\* what the store operations leave alone
notOpsVars == << dedupVars, fetchVars, orchVars, parseVars, concVars, transpVars,
                db_last, db_prev,
                  loopVars, seqVars,
                  djVars,
                  mgVars,
                  cvVars,
                  enVars,
                  gateVars,
                  appVars >>

notLoopVars == << dedupVars, fetchVars, storeVars, orchVars, parseVars, concVars,
                 opsVars, transpVars, seqVars,
                  djVars,
                  mgVars,
                  cvVars,
                  enVars,
                  gateVars,
                  appVars >>

\* what the requests of the source tasks of a run leave alone, the state of
\* scrape_all_portals apart
notSeqVars == << dedupVars, fetchVars, storeVars, parseVars, concVars, opsVars,
                transpVars, loopVars,
                  djVars,
                  mgVars,
                  cvVars,
                  enVars,
                  gateVars,
                  appVars >>

notTranspVars == << dedupVars, fetchVars, storeVars, orchVars, parseVars, concVars,
                   opsVars,
                  loopVars, seqVars,
                  djVars,
                  mgVars,
                  cvVars,
                  enVars,
                  gateVars,
                  appVars >>

vars == << dedupVars, fetchVars, storeVars, orchVars, parseVars, concVars, opsVars,
          transpVars,
                  loopVars, seqVars,
                  djVars,
                  mgVars,
                  cvVars,
                  enVars,
                  gateVars,
                  appVars >>

\* ------------------------------------------------------------------------
\* The parts of the state a specification does not use, at rest
\* ------------------------------------------------------------------------
NoOutcome == [status |-> "none", count |-> 0]

NoCall == [called |-> FALSE, job |-> None, exc |-> "", ret |-> FALSE, before |-> {}, after |-> {}]

\* portals of config["portals"], in the order of the dictionary; "monster"
\* has no entry in SCRAPER_MAP
ConfigPortals == << "indeed", "naukri", "linkedin", "monster" >>

SCRAPER_MAP == { "linkedin", "indeed", "naukri", "hiringcafe", "angellist", "iimjobs" }

PortalSet == { ConfigPortals[k] : k \in 1..Len(ConfigPortals) }

NoResult == [exc |-> FALSE, jobs |-> << >>, status |-> "none"]

NoBulk == [called |-> FALSE, exc |-> "", inserted |-> 0, skipped |-> 0]

\* "error": None
NoErrorText == "<None>"

\* the status dictionary at import time
StatusIdle == [running |-> FALSE, phase |-> "idle", error |-> NoErrorText]

OrchRest ==
  /\ o_pc = "idle"
  /\ o_probes = << >>
  /\ t_pc = [p \in PortalSet |-> "none"]
  /\ t_fn = [p \in PortalSet |-> NoResult]
  /\ t_ret = [p \in PortalSet |-> NoResult]
  /\ o_first = {}
  /\ o_doneq = << >>
  /\ o_snap = {}
  /\ o_order = << >>
  /\ completed = 0
  /\ portal_results = [p \in PortalSet |-> NoOutcome]
  /\ all_jobs = << >>
  /\ cb_log = << >>
  /\ o_batch = << >>
  /\ p_store0 = {}
  /\ p_bulk = NoBulk
  /\ scraper_status = StatusIdle

DjIdle ==
  /\ dj_table = {}
  /\ dj_calls = 0
  /\ dj_ret = 0
  /\ dj_before = {}

MgIdle ==
  /\ mg_db = [exists |-> FALSE, columns |-> {}, rows |-> {}]
  /\ mg_calls = 0
  /\ mg_exc = ""
  /\ mg_db0 = [exists |-> FALSE, columns |-> {}, rows |-> {}]

CvIdle ==
  /\ cv_job = [skills |-> {}, words |-> {}]
  /\ cv_data = [given |-> FALSE, skills |-> {}, words |-> {}]
  /\ cv_pc = "idle"
  /\ cv_ret = 0
  /\ cv_last = -1

EnIdle ==
  /\ e_jobs = << >>
  /\ e_i = 0
  /\ e_results = << >>
  /\ e_cache = << >>
  /\ e_log = << >>
  /\ e_pc = "idle"

GateIdle ==
  /\ g_store = {}
  /\ g_call = [kind |-> "none"]

AppIdle ==
  /\ ap_vercel = FALSE
  /\ ap_status = [running |-> FALSE]
  /\ ap_pc = << >>
  /\ ap_batch = << >>
  /\ ap_prefs = << >>
  /\ ap_store = {}
  /\ ap_reqs = 0
  /\ ap_resp = [kind |-> "none", code |-> 0]

SeqIdle ==
  /\ r_issued = [p \in PortalSet |-> << >>]
  /\ r_inflight = [p \in PortalSet |-> {}]

OrchIdle ==
  /\ o_cfg =[enabled |-> {}, base_url |-> {}, thread_count |-> 1]
  /\ OrchRest

DedupIdle ==
  /\ dd_in = << >>
  /\ dd_out = << >>
  /\ dd_pc = "idle"

StoreIdle ==
  /\ store = {}
  /\ db_last = NoCall
  /\ db_prev = NoCall

ParseIdle ==
  /\ pg_items = << >>
  /\ pg_cards = << >>
  /\ pg_pc = "idle"
  /\ pg_out = << >>

NoOp == [op |-> "none", before |-> {}]

OpsIdle ==
  /\ u_count = 0
  /\ u_last = NoOp

Callers == 1..NCallers

NoRes == [exc |-> "", ret |-> FALSE]

ConcIdle ==
  /\ c_pc = [c \in Callers |-> "idle"]
  /\ c_job = [c \in Callers |-> None]
  /\ c_res = [c \in Callers |-> NoRes]
  /\ c_store0 = [c \in Callers |-> {}]

\* ------------------------------------------------------------------------
\* scrapers.py: the response cache
\* ------------------------------------------------------------------------
Urls == 1..NUrls

NoHtml == "<None>"
Bodies == { "", "json1", "cards3" }

NoFile == [present |-> FALSE, body |-> "", mtime |-> 0]

\* "if cached:", "if not html:"
Truthy(html) == html # NoHtml /\ html # ""

\* a plausible slip: get_cached without its age test
get_cached_never_expires(c, url, t, expiry_hours) ==
  IF c[url].present THEN c[url].body ELSE NoHtml

\* a plausible slip: get_cached returns the path of the file, not its text
get_cached_returns_path(c, url, t, expiry_hours) ==
  IF c[url].present /\ t - c[url].mtime < expiry_hours
  THEN "cache/file.html"
  ELSE NoHtml

get_cached(c, url, t, expiry_hours) ==
  IF c[url].present /\ t - c[url].mtime < expiry_hours
  THEN c[url].body
  ELSE NoHtml

set_cache(c, url, html, t) ==
  [c EXCEPT ![url] = [present |-> TRUE, body |-> html, mtime |-> t]]

EmptyCache == [u \in Urls |-> NoFile]

BothRuns(x) == [on |-> x, off |-> x]

TranspIdle ==
  /\ tr_srv = [u \in Urls |-> "fail"]
  /\ tr_ttl = 0
  /\ tr_now = 0
  /\ tr_cache = BothRuns(EmptyCache)
  /\ tr_ret = BothRuns(NoHtml)
  /\ tr_jobs = BothRuns(<< >>)
  /\ tr_reqs = BothRuns(0)
  /\ tr_calls = 0

LoopIdle ==
  /\ k_n = 0
  /\ k_i = 0
  /\ k_pc = "idle"
  /\ k_html = NoHtml
  /\ k_jobs = << >>
  /\ k_events = << >>

\* ------------------------------------------------------------------------
\* scrapers.py: the extractors of scrape_indeed, scrape_naukri, scrape_linkedin
\* ------------------------------------------------------------------------
\* A fragment of a response: an item of the embedded structured data or a
\* markup card. exc names the exception that the statements handling the
\* fragment raise on it: "" for none, "AttributeError" for an item that is
\* not a dictionary (item.get fails), "TypeError" for a field of the wrong
\* type (a number where text is sliced or searched).
Frag(t, c, e) == [title |-> t, company |-> c, exc |-> e]

\* items of the embedded JSON of a page
PageItems(html) ==
  CASE html = "json1" -> << Frag(<<"r">>, <<"a">>, ""), Frag(<<>>, <<"b">>, "") >>
    [] html = "jsonbad" -> << Frag(<<"r">>, <<"a">>, ""),
                              Frag(<<"q">>, <<"c">>, "AttributeError") >>
    [] OTHER -> << >>

\* markup cards of a page
PageCards(html) ==
  CASE html = "json1"  -> << Frag(<<"x">>, <<"b">>, "") >>
    [] html = "cards3" -> << Frag(<<"r">>, <<"a">>, ""), Frag(<<"r">>, <<>>, ""),
                             Frag(<<"R">>, <<"b">>, "") >>
    [] OTHER -> << >>

PortalJob(portal, f) == [portal |-> portal, company |-> f.company, role |-> f.title]

IndeedJob(f) == PortalJob("Indeed", f)

\* "if role and company:" / "if title and company:"
HasRoleAndCompany(f) == f.title # << >> /\ f.company # << >>

\* "for card in cards: try: ... if role and company: jobs.append(...)
\*  except Exception: continue"
RECURSIVE ExtractCards(_, _)
ExtractCards(frags, portal) ==
  IF frags = << >> THEN << >>
  ELSE LET f == Head(frags) IN
       IF f.exc = "" /\ HasRoleAndCompany(f)
       THEN << PortalJob(portal, f) >> \o ExtractCards(Tail(frags), portal)
       ELSE ExtractCards(Tail(frags), portal)

ExtractFragments(frags) == ExtractCards(frags, "Indeed")

\* _find_job_results: a 'results' list counts only if its first element is a
\* dictionary with a job, title or jobkey entry
find_job_results(items) ==
  IF items # << >> /\ Head(items).exc # "AttributeError" THEN items ELSE << >>

\* the second loop of _parse_indeed_initial_data: each item in its own try
\* with "except (TypeError, KeyError, AttributeError): continue"
RECURSIVE IndeedItemLoop(_)
IndeedItemLoop(items) ==
  IF items = << >> THEN << >>
  ELSE LET f == Head(items) IN
       IF f.exc = "" /\ HasRoleAndCompany(f)
       THEN << IndeedJob(f) >> \o IndeedItemLoop(Tail(items))
       ELSE IndeedItemLoop(Tail(items))

\* _parse_indeed_initial_data: the first loop (dedup by jobkey) calls
\* item.get outside any try, so an item that is not a dictionary ends the
\* function with AttributeError
parse_indeed_initial_data(items) ==
  LET results == find_job_results(items) IN
    IF \E k \in 1..Len(results) : results[k].exc = "AttributeError"
    THEN Raised("AttributeError")
    ELSE Returned(IndeedItemLoop(results))

\* a plausible slip: the markup cards are parsed as well and added to the
\* records of the structured data
scrape_indeed_page_merged(items, cards) ==
  LET json_jobs == parse_indeed_initial_data(items) IN
    IF json_jobs.exc # "" THEN << >>
    ELSE json_jobs.value \o ExtractFragments(cards)

\* the try block of scrape_indeed for one page: the records added to jobs.
\* An exception of the JSON strategy is caught by the block's own
\* "except Exception" and nothing of the page is added.
scrape_indeed_page(items, cards) ==
  LET json_jobs == parse_indeed_initial_data(items) IN
    IF json_jobs.exc # "" THEN << >>
    ELSE IF json_jobs.value # << >> THEN json_jobs.value
    ELSE ExtractFragments(cards)

ParseIndeedPage(html) == scrape_indeed_page(PageItems(html), PageCards(html))

\* strategy 1 of _parse_naukri_json on a ld+json script that holds a list of
\* items: the loop over the items is inside one try with
\* "except (json.JSONDecodeError, TypeError): continue", so a TypeError ends
\* the loop over the script (the records before it are kept) and an
\* AttributeError leaves the function
RECURSIVE NaukriLdLoop(_, _)
NaukriLdLoop(items, jobs) ==
  IF items = << >> THEN Returned(jobs)
  ELSE LET f == Head(items) IN
       IF f.exc = "AttributeError" THEN Raised("AttributeError")
       ELSE IF f.exc = "TypeError" THEN Returned(jobs)
       ELSE IF HasRoleAndCompany(f)
       THEN NaukriLdLoop(Tail(items), Append(jobs, PortalJob("Naukri", f)))
       ELSE NaukriLdLoop(Tail(items), jobs)

\* _parse_naukri_json of a page with one ld+json script and no __NEXT_DATA__
\* script
parse_naukri_json(items) == NaukriLdLoop(items, << >>)

\* the try block of scrape_naukri for one page
scrape_naukri_page(items, cards) ==
  LET json_jobs == parse_naukri_json(items) IN
    IF json_jobs.exc # "" THEN << >>
    ELSE IF json_jobs.value # << >> THEN json_jobs.value
    ELSE ExtractCards(cards, "Naukri")

\* strategy 1 of _parse_iimjobs_nextdata: the same loop as in
\* _parse_naukri_json, with _iimjobs_ld_json_to_job
RECURSIVE IimjobsLdLoop(_, _)
IimjobsLdLoop(items, jobs) ==
  IF items = << >> THEN Returned(jobs)
  ELSE LET f == Head(items) IN
       IF f.exc = "AttributeError" THEN Raised("AttributeError")
       ELSE IF f.exc = "TypeError" THEN Returned(jobs)
       ELSE IF HasRoleAndCompany(f)
       THEN IimjobsLdLoop(Tail(items), Append(jobs, PortalJob("IIMJobs", f)))
       ELSE IimjobsLdLoop(Tail(items), jobs)

\* _parse_iimjobs_nextdata of a page with one ld+json script and no
\* __NEXT_DATA__ script
parse_iimjobs_nextdata(items) == IimjobsLdLoop(items, << >>)

\* the try block of scrape_iimjobs for one page
scrape_iimjobs_page(items, cards) ==
  LET json_jobs == parse_iimjobs_nextdata(items) IN
    IF json_jobs.exc # "" THEN << >>
    ELSE IF json_jobs.value # << >> THEN json_jobs.value
    ELSE ExtractCards(cards, "IIMJobs")

\* the try block of scrape_linkedin for one page: markup cards only
scrape_linkedin_page(cards) == ExtractCards(cards, "LinkedIn")

\* ------------------------------------------------------------------------
\* scrapers.py: fetch_url, fetch_with_selenium, scrape_indeed, run_scraper
\* ------------------------------------------------------------------------
retries == 3

CacheExpiryChoices == { 0, 2 }
MaxRetriesChoices == { 2, 3, 4 }

FetchIdle ==
  /\ cfg = [cache_expiry_hours |-> 2, max_retries |-> 3, use_selenium |-> FALSE]
  /\ now = 0
  /\ cache = [u \in Urls |-> NoFile]
  /\ fetched_ok = {}
  /\ s_pc = "idle"
  /\ s_i = 0
  /\ s_jobs = << >>
  /\ s_hist = << >>
  /\ f_attempt = 0
  /\ f_log = << >>
  /\ f_result = NoHtml
  /\ f_entry0 = NoFile
  /\ f_t0 = 0
  /\ outcome = NoOutcome

FetchInit ==
  /\ cfg \in [cache_expiry_hours : CacheExpiryChoices,
              max_retries : MaxRetriesChoices,
              use_selenium : BOOLEAN]
  /\ now = 0
  /\ cache = [u \in Urls |-> NoFile]
  /\ fetched_ok = {}
  /\ s_pc = "idle"
  /\ s_i = 0
  /\ s_jobs = << >>
  /\ s_hist = << >>
  /\ f_attempt = 0
  /\ f_log = << >>
  /\ f_result = NoHtml
  /\ f_entry0 = NoFile
  /\ f_t0 = 0
  /\ outcome = NoOutcome
  /\ DedupIdle
  /\ StoreIdle
  /\ OrchIdle
  /\ ParseIdle
  /\ ConcIdle
  /\ OpsIdle
  /\ TranspIdle
  /\ LoopIdle
  /\ SeqIdle
  /\ AppIdle
  /\ GateIdle
  /\ EnIdle
  /\ CvIdle
  /\ MgIdle
  /\ DjIdle

\* run_scraper is started for the source; scrape_indeed enters its loops
StartTask ==
  /\ s_pc \in { "idle", "returned" }
  /\ s_pc' = "loop"
  /\ s_i' = 1
  /\ s_jobs' = << >>
  /\ s_hist' = << >>
  /\ outcome' = NoOutcome
  /\ UNCHANGED << cfg, now, cache, fetched_ok, f_attempt, f_log, f_result,
                  f_entry0, f_t0, notFetchVars >>

\* fetch_url is called for the next url: the cache check, then either the
\* cached body is returned or the first attempt is issued
FetchUrl ==
  /\ s_pc = "loop"
  /\ s_i <= NUrls
  /\ LET cached == get_cached(cache, s_i, now, cfg.cache_expiry_hours) IN
       /\ f_entry0' = cache[s_i]
       /\ f_t0' = now
       /\ f_log' = << >>
       /\ IF Truthy(cached)
          THEN /\ f_result' = cached
               /\ f_attempt' = 0
               /\ s_pc' = "fetched"
          ELSE /\ f_result' = NoHtml
               /\ f_attempt' = 1
               /\ s_pc' = IF cfg.use_selenium THEN "selenium" ELSE "http"
  /\ UNCHANGED << cfg, now, cache, fetched_ok, s_i, s_jobs, s_hist, outcome,
                  notFetchVars >>

\* requests.get returned a 2xx response
HttpOk ==
  /\ s_pc = "http"
  /\ \E html \in Bodies :
       /\ cache' = set_cache(cache, s_i, html, now)
       /\ f_result' = html
       /\ f_log' = Append(f_log, html)
  /\ fetched_ok' = fetched_ok \cup { s_i }
  /\ s_pc' = "fetched"
  /\ UNCHANGED << cfg, now, s_i, s_jobs, s_hist, f_attempt, f_entry0, f_t0,
                  outcome, notFetchVars >>

\* a plausible slip: the retry guard is off by one, the last attempt is lost
HttpFailGivesUpEarly ==
  /\ s_pc = "http"
  /\ f_log' = Append(f_log, "fail")
  /\ IF f_attempt < retries - 1
     THEN /\ f_attempt' = f_attempt + 1
          /\ UNCHANGED << s_pc, f_result >>
     ELSE /\ f_result' = NoHtml
          /\ s_pc' = "fetched"
          /\ UNCHANGED f_attempt
  /\ UNCHANGED << cfg, now, cache, fetched_ok, s_i, s_jobs, s_hist, f_entry0,
                  f_t0, outcome, notFetchVars >>

\* a plausible slip: the exhausted fetch leaves an empty file in the cache
HttpFailCachesEmpty ==
  /\ s_pc = "http"
  /\ f_log' = Append(f_log, "fail")
  /\ IF f_attempt < retries
     THEN /\ f_attempt' = f_attempt + 1
          /\ UNCHANGED << s_pc, f_result, cache >>
     ELSE /\ f_result' = NoHtml
          /\ s_pc' = "fetched"
          /\ cache' = set_cache(cache, s_i, "", now)
          /\ UNCHANGED f_attempt
  /\ UNCHANGED << cfg, now, fetched_ok, s_i, s_jobs, s_hist, f_entry0,
                  f_t0, outcome, notFetchVars >>

\* requests.get or raise_for_status raised RequestException
HttpFail ==
  /\ s_pc = "http"
  /\ f_log' = Append(f_log, "fail")
  /\ IF f_attempt < retries
     THEN /\ f_attempt' = f_attempt + 1
          /\ UNCHANGED << s_pc, f_result >>
     ELSE /\ f_result' = NoHtml
          /\ s_pc' = "fetched"
          /\ UNCHANGED f_attempt
  /\ UNCHANGED << cfg, now, cache, fetched_ok, s_i, s_jobs, s_hist, f_entry0,
                  f_t0, outcome, notFetchVars >>

\* the browser session delivered driver.page_source
SeleniumOk ==
  /\ s_pc = "selenium"
  /\ \E html \in Bodies :
       /\ cache' = set_cache(cache, s_i, html, now)
       /\ f_result' = html
       /\ f_log' = Append(f_log, html)
  /\ fetched_ok' = fetched_ok \cup { s_i }
  /\ s_pc' = "fetched"
  /\ UNCHANGED << cfg, now, s_i, s_jobs, s_hist, f_attempt, f_entry0, f_t0,
                  outcome, notFetchVars >>

\* the browser session raised
SeleniumFail ==
  /\ s_pc = "selenium"
  /\ f_log' = Append(f_log, "fail")
  /\ IF f_attempt < retries
     THEN /\ f_attempt' = f_attempt + 1
          /\ UNCHANGED << s_pc, f_result >>
     ELSE /\ f_result' = NoHtml
          /\ s_pc' = "fetched"
          /\ UNCHANGED f_attempt
  /\ UNCHANGED << cfg, now, cache, fetched_ok, s_i, s_jobs, s_hist, f_entry0,
                  f_t0, outcome, notFetchVars >>

\* scrape_indeed after fetch_url returned: "if not html: continue", else the
\* page is parsed and the task goes on to random_delay
ParsePage ==
  /\ s_pc = "fetched"
  /\ s_hist' = Append(s_hist, [log |-> f_log, html |-> f_result])
  /\ IF ~Truthy(f_result)
     THEN /\ s_i' = s_i + 1
          /\ s_pc' = "loop"
          /\ UNCHANGED s_jobs
     ELSE /\ s_jobs' = s_jobs \o ParseIndeedPage(f_result)
          /\ s_pc' = "delay"
          /\ UNCHANGED s_i
  /\ UNCHANGED << cfg, now, cache, fetched_ok, f_attempt, f_log, f_result,
                  f_entry0, f_t0, outcome, notFetchVars >>

\* random_delay returned
DelayDone ==
  /\ s_pc = "delay"
  /\ s_i' = s_i + 1
  /\ s_pc' = "loop"
  /\ UNCHANGED << cfg, now, cache, fetched_ok, s_jobs, s_hist, f_attempt,
                  f_log, f_result, f_entry0, f_t0, outcome, notFetchVars >>

\* scrape_indeed returns jobs; run_scraper returns (jobs, "success")
ReturnTask ==
  /\ s_pc = "loop"
  /\ s_i > NUrls
  /\ outcome' = [status |-> "success", count |-> Len(s_jobs)]
  /\ s_pc' = "returned"
  /\ UNCHANGED << cfg, now, cache, fetched_ok, s_i, s_jobs, s_hist, f_attempt,
                  f_log, f_result, f_entry0, f_t0, notFetchVars >>

\* an hour passes (network wait, backoff sleep, politeness delay, idle time)
Tick ==
  /\ now < MaxTime
  /\ now' = now + 1
  /\ UNCHANGED << cfg, cache, fetched_ok, s_pc, s_i, s_jobs, s_hist,
                  f_attempt, f_log, f_result, f_entry0, f_t0, outcome, notFetchVars >>

FetchNext ==
  \/ StartTask
  \/ FetchUrl
  \/ HttpOk
  \/ HttpFail
  \/ SeleniumOk
  \/ SeleniumFail
  \/ ParsePage
  \/ DelayDone
  \/ ReturnTask
  \/ Tick

SpecFetch == FetchInit /\ [][FetchNext]_vars

\* ------------------------------------------------------------------------
\* Specification of fetch_url against a server with fixed responses, run
\* once with the cache enabled and once with it disabled
\* ------------------------------------------------------------------------
\* what the server answers for a url, every time: a body, or a failure
ServerResponses == Bodies \cup { "fail" }

\* one call fetch_url(url, config) at time t with the cache directory c:
\* the cache check, then the attempts of the loop against the server whose
\* answer for the url is resp (the requests and the browser path call
\* set_cache alike). The value returned, the cache after the call and the
\* number of real requests made.
fetch_url_fixed(c, url, t, expiry_hours, resp) ==
  LET cached == get_cached(c, url, t, expiry_hours) IN
    IF Truthy(cached)
    THEN [html |-> cached, cache |-> c, requests |-> 0]
    ELSE IF resp = "fail"
    THEN [html |-> NoHtml, cache |-> c, requests |-> retries]
    ELSE [html |-> resp, cache |-> set_cache(c, url, resp, t), requests |-> 1]

\* the records scrape_indeed adds for the value fetch_url returned
RecordsOfFetch(html) == IF Truthy(html) THEN ParseIndeedPage(html) ELSE << >>

TranspInit ==
  /\ tr_srv \in [Urls -> ServerResponses]
  /\ tr_ttl \in { 1, 2 }
  /\ tr_now = 0
  /\ tr_cache = BothRuns(EmptyCache)
  /\ tr_ret = BothRuns(NoHtml)
  /\ tr_jobs = BothRuns(<< >>)
  /\ tr_reqs = BothRuns(0)
  /\ tr_calls = 0
  /\ DedupIdle
  /\ FetchIdle
  /\ StoreIdle
  /\ OrchIdle
  /\ ParseIdle
  /\ ConcIdle
  /\ OpsIdle
  /\ LoopIdle
  /\ SeqIdle
  /\ AppIdle
  /\ GateIdle
  /\ EnIdle
  /\ CvIdle
  /\ MgIdle
  /\ DjIdle

\* the same call fetch_url(url, config) in both runs: cache_expiry_hours is
\* tr_ttl in the run with the cache enabled and 0 in the run without
TranspFetch ==
  /\ tr_calls < MaxFetches
  /\ \E url \in Urls :
       LET a == fetch_url_fixed(tr_cache.on, url, tr_now, tr_ttl, tr_srv[url])
           b == fetch_url_fixed(tr_cache.off, url, tr_now, 0, tr_srv[url])
       IN  /\ tr_cache' = [on |-> a.cache, off |-> b.cache]
           /\ tr_ret' = [on |-> a.html, off |-> b.html]
           /\ tr_jobs' = [on |-> tr_jobs.on \o RecordsOfFetch(a.html),
                          off |-> tr_jobs.off \o RecordsOfFetch(b.html)]
           /\ tr_reqs' = [on |-> tr_reqs.on + a.requests,
                          off |-> tr_reqs.off + b.requests]
  /\ tr_calls' = tr_calls + 1
  /\ UNCHANGED << tr_srv, tr_ttl, tr_now, notTranspVars >>

\* an hour passes
TranspTick ==
  /\ tr_now < MaxTime
  /\ tr_now' = tr_now + 1
  /\ UNCHANGED << tr_srv, tr_ttl, tr_cache, tr_ret, tr_jobs, tr_reqs, tr_calls,
                  notTranspVars >>

TranspNext ==
  \/ TranspFetch
  \/ TranspTick

SpecTransp == TranspInit /\ [][TranspNext]_vars

\* ------------------------------------------------------------------------
\* Specification of deduplicate_jobs as a pure function
\* ------------------------------------------------------------------------
DedupCompanies == { <<"a">>, <<"A", " ">>, <<"b">> }
DedupRoles     == { <<"r">>, <<" ", "R">> }
DedupLocations == { None, <<>>, <<"x">> }

DedupRecords ==
  [company : DedupCompanies, role : DedupRoles, location : DedupLocations]

RECURSIVE SeqsUpTo(_, _)
SeqsUpTo(S, n) ==
  IF n = 0 THEN { <<>> }
  ELSE LET shorter == SeqsUpTo(S, n - 1)
       IN  shorter \cup { Append(s, x) : s \in { t \in shorter : Len(t) = n - 1 }, x \in S }

DedupInit ==
  /\ dd_in \in SeqsUpTo(DedupRecords, MaxJobs)
  /\ dd_out = <<>>
  /\ dd_pc = "idle"
  /\ FetchIdle
  /\ StoreIdle
  /\ OrchIdle
  /\ ParseIdle
  /\ ConcIdle
  /\ OpsIdle
  /\ TranspIdle
  /\ LoopIdle
  /\ SeqIdle
  /\ AppIdle
  /\ GateIdle
  /\ EnIdle
  /\ CvIdle
  /\ MgIdle
  /\ DjIdle

CallDeduplicateJobs ==
  /\ dd_pc = "idle"
  /\ dd_out' = deduplicate_jobs(dd_in)
  /\ dd_pc' = "done"
  /\ UNCHANGED << dd_in, notDedupVars >>

DedupNext == CallDeduplicateJobs

SpecDedup == DedupInit /\ [][DedupNext]_vars

\* ------------------------------------------------------------------------
\* Specification of the page extractors as pure functions
\* ------------------------------------------------------------------------
ParseFrags ==
  { Frag(<<"r">>, <<"a">>, ""), Frag(<<"q">>, <<"b">>, ""),
    Frag(<< >>, <<"a">>, ""), Frag(<<"r">>, << >>, ""),
    Frag(<<"r">>, <<"a">>, "TypeError"), Frag(<<"r">>, <<"a">>, "AttributeError") }

ParseInit ==
  /\ pg_items \in SeqsUpTo(ParseFrags, MaxFrags)
  /\ pg_cards \in SeqsUpTo(ParseFrags, MaxFrags)
  /\ pg_pc = "idle"
  /\ pg_out = << >>
  /\ DedupIdle
  /\ FetchIdle
  /\ StoreIdle
  /\ OrchIdle
  /\ ConcIdle
  /\ OpsIdle
  /\ TranspIdle
  /\ LoopIdle
  /\ SeqIdle
  /\ AppIdle
  /\ GateIdle
  /\ EnIdle
  /\ CvIdle
  /\ MgIdle
  /\ DjIdle

CallScrapeIndeedPage ==
  /\ pg_pc = "idle"
  /\ pg_out' = scrape_indeed_page(pg_items, pg_cards)
  /\ pg_pc' = "indeed"
  /\ UNCHANGED << pg_items, pg_cards, notParseVars >>

CallScrapeNaukriPage ==
  /\ pg_pc = "idle"
  /\ pg_out' = scrape_naukri_page(pg_items, pg_cards)
  /\ pg_pc' = "naukri"
  /\ UNCHANGED << pg_items, pg_cards, notParseVars >>

CallScrapeIimjobsPage ==
  /\ pg_pc = "idle"
  /\ pg_out' = scrape_iimjobs_page(pg_items, pg_cards)
  /\ pg_pc' = "iimjobs"
  /\ UNCHANGED << pg_items, pg_cards, notParseVars >>

\* scrape_linkedin reads the markup cards only
CallScrapeLinkedinPage ==
  /\ pg_pc = "idle"
  /\ pg_out' = scrape_linkedin_page(pg_cards)
  /\ pg_pc' = "linkedin"
  /\ UNCHANGED << pg_items, pg_cards, notParseVars >>

ParseNext ==
  \/ CallScrapeIndeedPage
  \/ CallScrapeNaukriPage
  \/ CallScrapeIimjobsPage
  \/ CallScrapeLinkedinPage

SpecParse == ParseInit /\ [][ParseNext]_vars

\* ------------------------------------------------------------------------
\* Specification of the store: insert_job calls, one after the other
\* ------------------------------------------------------------------------
Job(portal, company, role, location) ==
  [portal |-> portal, company |-> company, role |-> role,
   location |-> location, job_id |-> None]

\* the job with the job_id its caller computes before insert_jobs_bulk
WithId(job) ==
  [job EXCEPT !.job_id = generate_job_id(job.portal, job.company, job.role, job.location)]

JobSeniorPM == Job(T_LinkedIn, T_Acme, T_SeniorPM, T_Pune)
JobSrPM     == Job(T_Indeed, T_AcmeLower, T_SrPM, T_Pune)
JobAcmeVerbatim == Job(T_Indeed, T_AcmeBank, T_PM, T_Bengaluru)
JobAcmeVariant  == Job(T_Naukri, T_AcmeBankUpper, T_PMFintech, T_Bengaluru)

BaseJobs == { JobSeniorPM, JobSrPM, JobAcmeVerbatim, JobAcmeVariant }

StoreJobs == BaseJobs \cup { WithId(j) : j \in BaseJobs }

\* the table as the program may find it at start: rows left by earlier runs
InitialStores ==
  { { NewRow(j, 0) : j \in S } : S \in { X \in SUBSET BaseJobs : Cardinality(X) <= MaxStored } }

StoreInit ==
  /\ store \in InitialStores
  /\ db_last = NoCall
  /\ db_prev = NoCall
  /\ DedupIdle
  /\ FetchIdle
  /\ OrchIdle
  /\ ParseIdle
  /\ ConcIdle
  /\ OpsIdle
  /\ TranspIdle
  /\ LoopIdle
  /\ SeqIdle
  /\ AppIdle
  /\ GateIdle
  /\ EnIdle
  /\ CvIdle
  /\ MgIdle
  /\ DjIdle

\* one call insert_job(job), from its first statement to its return or raise
CallInsertJob ==
  /\ \E job \in StoreJobs :
       LET r == insert_job(store, job, 1) IN
         /\ store' = r.store
         /\ db_last' = [called |-> TRUE, job |-> job, exc |-> r.exc, ret |-> r.ret,
                        before |-> store, after |-> r.store]
  /\ db_prev' = db_last
  /\ UNCHANGED notStoreVars

StoreNext == CallInsertJob

SpecStore == StoreInit /\ [][StoreNext]_vars

\* ------------------------------------------------------------------------
\* Specification of concurrent insert_job calls on the shared table
\* ------------------------------------------------------------------------
\* Each caller runs insert_job statement by statement; every statement opens
\* its own connection, so the statements of different callers interleave.
ConcInit ==
  /\ store \in InitialStores
  /\ db_last = NoCall
  /\ db_prev = NoCall
  /\ ConcIdle
  /\ OpsIdle
  /\ TranspIdle
  /\ LoopIdle
  /\ SeqIdle
  /\ AppIdle
  /\ GateIdle
  /\ EnIdle
  /\ CvIdle
  /\ MgIdle
  /\ DjIdle
  /\ DedupIdle
  /\ FetchIdle
  /\ OrchIdle
  /\ ParseIdle

\* the records the callers submit: those of the sequential specification and
\* one that has the job_id of a stored row but another letter case
JobAcmeUpper == Job(T_Indeed, T_AcmeBankUpper, T_PM, T_Bengaluru)

ConcJobs == StoreJobs \cup { JobAcmeUpper }

\* caller c enters insert_job(job): job_id is computed
ConcCall(c) ==
  /\ c_pc[c] \in { "idle", "done" }
  /\ \E job \in ConcJobs : c_job' = [c_job EXCEPT ![c] = job]
  /\ c_pc' = [c_pc EXCEPT ![c] = "job_exists"]
  /\ c_res' = [c_res EXCEPT ![c] = NoRes]
  /\ c_store0' = [c_store0 EXCEPT ![c] = store]
  /\ UNCHANGED << store, notConcVars >>

ConcReturn(c, exc, ret) ==
  /\ c_res' = [c_res EXCEPT ![c] = [exc |-> exc, ret |-> ret]]
  /\ c_pc' = [c_pc EXCEPT ![c] = "done"]

\* caller c executes its next statement of insert_job: the job_exists
\* lookup, the find_similar_job call, or the INSERT (a row with a job_id that
\* is in the table violates PRIMARY KEY: IntegrityError, return False)
ConcStep(c) ==
  /\ c_pc[c] \in { "job_exists", "find_similar_job", "insert" }
  /\ LET job == c_job[c]
         job_id == JobIdOf(job)
     IN  CASE c_pc[c] = "job_exists" ->
                IF job_exists(store, job_id)
                THEN ConcReturn(c, "", FALSE) /\ UNCHANGED store
                ELSE /\ c_pc' = [c_pc EXCEPT ![c] = "find_similar_job"]
                     /\ UNCHANGED << c_res, store >>
           [] c_pc[c] = "find_similar_job" ->
                LET similar == find_similar_job(store, job.company, job.role, job.location) IN
                  IF similar.exc # ""
                  THEN ConcReturn(c, similar.exc, FALSE) /\ UNCHANGED store
                  ELSE IF similar.value # None /\ similar.value # job_id
                  THEN ConcReturn(c, "", FALSE) /\ UNCHANGED store
                  ELSE /\ c_pc' = [c_pc EXCEPT ![c] = "insert"]
                       /\ UNCHANGED << c_res, store >>
           [] c_pc[c] = "insert" ->
                IF \E r \in store : r.job_id = job_id
                THEN ConcReturn(c, "", FALSE) /\ UNCHANGED store
                ELSE /\ store' = store \cup { NewRow(job, 1) }
                     /\ ConcReturn(c, "", TRUE)
  /\ UNCHANGED << c_job, c_store0, notConcVars >>

ConcNext ==
  \/ \E c \in Callers : ConcCall(c)
  \/ \E c \in Callers : ConcStep(c)

SpecConc == ConcInit /\ [][ConcNext]_vars

\* ------------------------------------------------------------------------
\* Specification of the store operations that annotate admitted rows
\* ------------------------------------------------------------------------
\* the job_ids the operations are called with: one row or none has them
OpIds == { JobIdOf(JobSeniorPM), JobIdOf(JobAcmeVerbatim) }

OpIdLists ==
  { << JobIdOf(JobSeniorPM) >>, << JobIdOf(JobAcmeVerbatim) >>,
    << JobIdOf(JobSeniorPM), JobIdOf(JobAcmeVerbatim) >> }

\* 1 = Applied, 2 = Saved, 6 = Rejected
StatusChoices == { 1, 2, 6 }

OpsInit ==
  /\ store \in InitialStores
  /\ db_last = NoCall
  /\ db_prev = NoCall
  /\ u_count = 0
  /\ u_last = NoOp
  /\ DedupIdle
  /\ FetchIdle
  /\ OrchIdle
  /\ ParseIdle
  /\ ConcIdle
  /\ TranspIdle
  /\ LoopIdle
  /\ SeqIdle
  /\ AppIdle
  /\ GateIdle
  /\ EnIdle
  /\ CvIdle
  /\ MgIdle
  /\ DjIdle

\* the operation op replaces the table by st
Operate(op, st) ==
  /\ u_count' = u_count + 1
  /\ u_last' = [op |-> op, before |-> store]
  /\ store' = st
  /\ UNCHANGED notOpsVars

OpMarkSentInDigest ==
  /\ u_count < MaxOps
  /\ \E job_ids \in OpIdLists :
       Operate("mark_sent_in_digest", mark_sent_in_digest(store, job_ids, "now"))

OpUpdateAppliedStatus ==
  /\ u_count < MaxOps
  /\ \E job_id \in OpIds, status \in StatusChoices,
        follow_up_date \in { Null, "friday" }, rejection_reason \in { Null, "why" } :
       Operate("update_applied_status",
               update_applied_status(store, job_id, status, "n", follow_up_date,
                                     rejection_reason, "now"))

OpUpdateJobContacts ==
  /\ u_count < MaxOps
  /\ \E job_id \in OpIds :
       Operate("update_job_contacts",
               update_job_contacts(store, job_id, "pn", "pe", "pp", "pl"))

OpHideJob ==
  /\ u_count < MaxOps
  /\ \E job_id \in OpIds, hidden \in BOOLEAN :
       Operate("hide_job", hide_job(store, job_id, hidden))

OpUpdateJobNotes ==
  /\ u_count < MaxOps
  /\ \E job_id \in OpIds :
       Operate("update_job_notes", update_job_notes(store, job_id, "n2"))

\* insert_job after the rows were admitted: it returns False or raises
OpInsertJob ==
  /\ u_count < MaxOps
  /\ \E job \in StoreJobs :
       Operate("insert_job", insert_job(store, job, 1).store)

OpsNext ==
  \/ OpMarkSentInDigest
  \/ OpUpdateAppliedStatus
  \/ OpUpdateJobContacts
  \/ OpHideJob
  \/ OpUpdateJobNotes
  \/ OpInsertJob

SpecOps == OpsInit /\ [][OpsNext]_vars

\* ------------------------------------------------------------------------
\* scrapers.py: scrape_all_portals, and the store step of the pipeline
\* ------------------------------------------------------------------------
ThreadChoices == { 1, 2 }
BaseUrlChoices == { {}, { "indeed" }, { "indeed", "linkedin", "monster" } }
ProbeResults == { "ok", "down", "error" }

\* enabled_portals: the portals of the config that are enabled and have a
\* scraper, in config order
RECURSIVE FilterEnabled(_, _)
FilterEnabled(names, enabled) ==
  IF names = << >> THEN << >>
  ELSE IF Head(names) \in enabled /\ Head(names) \in SCRAPER_MAP
       THEN << Head(names) >> \o FilterEnabled(Tail(names), enabled)
       ELSE FilterEnabled(Tail(names), enabled)

enabled_portals == FilterEnabled(ConfigPortals, o_cfg.enabled)

EnabledSet == { enabled_portals[k] : k \in 1..Len(enabled_portals) }

total == Len(enabled_portals)

\* the portals that get a health check, in order
RECURSIVE FilterBaseUrl(_, _)
FilterBaseUrl(names, with_url) ==
  IF names = << >> THEN << >>
  ELSE IF Head(names) \in with_url
       THEN << Head(names) >> \o FilterBaseUrl(Tail(names), with_url)
       ELSE FilterBaseUrl(Tail(names), with_url)

ProbedPortals == FilterBaseUrl(enabled_portals, o_cfg.base_url)

\* what the scraper function of a portal may return in a run
TaskResults(p) ==
  CASE p = "indeed"   -> { << >>, << JobAcmeVerbatim >> }
    [] p = "naukri"   -> { << >>, << JobAcmeVariant >>,
                           << JobAcmeVariant, Job(T_Naukri, T_AcmeBank, T_PM, T_BengaluruLower) >> }
    [] p = "linkedin" -> { << >>, << JobSeniorPM, JobSeniorPM >> }
    [] OTHER -> { << >> }

RunInit ==
  /\ o_cfg \in [enabled : SUBSET PortalSet, base_url : BaseUrlChoices,
                thread_count : ThreadChoices]
  /\ OrchRest
  /\ store \in { {}, { NewRow(WithId(JobAcmeVerbatim), 0) } }
  /\ db_last = NoCall
  /\ db_prev = NoCall
  /\ DedupIdle
  /\ FetchIdle
  /\ ParseIdle
  /\ ConcIdle
  /\ OpsIdle
  /\ TranspIdle
  /\ LoopIdle
  /\ SeqIdle
  /\ AppIdle
  /\ GateIdle
  /\ EnIdle
  /\ CvIdle
  /\ MgIdle
  /\ DjIdle

\* the pipeline thread is started (running, phase 'starting', then
\* 'scraping') and calls scrape_all_portals: enabled_portals, total,
\* completed = 0
StartRun ==
  /\ o_pc = "idle"
  /\ o_pc' = "health"
  /\ scraper_status' = [running |-> TRUE, phase |-> "scraping", error |-> NoErrorText]
  /\ UNCHANGED << o_cfg, o_probes, t_pc, t_fn, t_ret, o_first, o_doneq,
                  completed, portal_results, all_jobs, cb_log, o_batch,
                  p_store0, p_bulk, o_snap, o_order, notOrchVars, storeVars >>

\* check_portal_health for the next enabled portal with a base_url; the
\* result is logged and dropped
HealthCheck ==
  /\ o_pc = "health"
  /\ Len(o_probes) < Len(ProbedPortals)
  /\ \E res \in ProbeResults :
       o_probes' = Append(o_probes, [portal |-> ProbedPortals[Len(o_probes) + 1],
                                     result |-> res])
  /\ UNCHANGED << o_cfg, o_pc, t_pc, t_fn, t_ret, o_first, o_doneq,
                  completed, portal_results, all_jobs, cb_log, o_batch,
                  p_store0, p_bulk, o_snap, o_order, scraper_status, notOrchVars, storeVars >>

\* a plausible slip: only the portals that passed the health check are
\* submitted
SubmitAllHealthyOnly ==
  /\ o_pc = "health"
  /\ Len(o_probes) = Len(ProbedPortals)
  /\ LET Unhealthy == { o_probes[k].portal :
                          k \in { j \in 1..Len(o_probes) : o_probes[j].result # "ok" } }
     IN  t_pc' = [p \in PortalSet |->
                   IF p \in EnabledSet \ Unhealthy THEN "queued" ELSE "none"]
  /\ o_pc' = "submitted"
  /\ UNCHANGED << o_cfg, o_probes, t_fn, t_ret, o_first, o_doneq,
                  completed, portal_results, all_jobs, cb_log, o_batch,
                  p_store0, p_bulk, o_snap, o_order, scraper_status, notOrchVars, storeVars >>

\* executor.submit(run_scraper, name) for every enabled portal
SubmitAll ==
  /\ o_pc = "health"
  /\ Len(o_probes) = Len(ProbedPortals)
  /\ t_pc' = [p \in PortalSet |-> IF p \in EnabledSet THEN "queued" ELSE "none"]
  /\ o_pc' = "submitted"
  /\ UNCHANGED << o_cfg, o_probes, t_fn, t_ret, o_first, o_doneq,
                  completed, portal_results, all_jobs, cb_log, o_batch,
                  p_store0, p_bulk, o_snap, o_order, scraper_status, notOrchVars, storeVars >>

Running == { p \in PortalSet : t_pc[p] = "running" }

\* the queued portal that was submitted first
NextQueued ==
  LET ks == { k \in 1..Len(enabled_portals) : t_pc[enabled_portals[k]] = "queued" }
  IN  enabled_portals[CHOOSE k \in ks : \A j \in ks : k <= j]

\* a free worker thread takes the next task from the queue
TaskStart ==
  /\ o_pc \in { "submitted", "collect" }
  /\ \E p \in PortalSet : t_pc[p] = "queued"
  /\ Cardinality(Running) < o_cfg.thread_count
  /\ t_pc' = [t_pc EXCEPT ![NextQueued] = "running"]
  /\ UNCHANGED << o_cfg, o_pc, o_probes, t_fn, t_ret, o_first, o_doneq,
                  completed, portal_results, all_jobs, cb_log, o_batch,
                  p_store0, p_bulk, o_snap, o_order, scraper_status, notOrchVars, storeVars >>

\* the future of p finishes: to the completion queue once the iteration of
\* as_completed has begun
Finish(p, res) ==
  /\ t_pc' = [t_pc EXCEPT ![p] = "done"]
  /\ t_ret' = [t_ret EXCEPT ![p] = res]
  /\ o_doneq' = IF o_pc = "collect" THEN Append(o_doneq, p) ELSE o_doneq
  /\ o_order' = Append(o_order, p)

\* a plausible slip: run_scraper without its except clause, the exception is
\* kept by the future and raised again by future.result()
TaskRaiseUncaught ==
  /\ \E p \in Running :
       /\ t_fn' = [t_fn EXCEPT ![p] = [exc |-> TRUE, jobs |-> << >>, status |-> "raised"]]
       /\ Finish(p, [exc |-> TRUE, jobs |-> << >>, status |-> "raised"])
  /\ UNCHANGED << o_cfg, o_pc, o_probes, o_first, completed, portal_results,
                  all_jobs, cb_log, o_batch, p_store0, p_bulk, o_snap,
                  scraper_status, notOrchVars, storeVars >>

\* the scraper function of p returns jobs: run_scraper returns
\* (portal_name, jobs, "success", elapsed)
TaskReturn ==
  /\ \E p \in Running : \E jobs \in TaskResults(p) :
       /\ t_fn' = [t_fn EXCEPT ![p] = [exc |-> FALSE, jobs |-> jobs, status |-> "returned"]]
       /\ Finish(p, [exc |-> FALSE, jobs |-> jobs, status |-> "success"])
  /\ UNCHANGED << o_cfg, o_pc, o_probes, o_first, completed, portal_results,
                  all_jobs, cb_log, o_batch, p_store0, p_bulk, o_snap,
                  scraper_status, notOrchVars, storeVars >>

\* the scraper function of p raises an Exception: run_scraper catches it and
\* returns (portal_name, [], "failed", elapsed)
TaskRaise ==
  /\ \E p \in Running :
       /\ t_fn' = [t_fn EXCEPT ![p] = [exc |-> TRUE, jobs |-> << >>, status |-> "raised"]]
       /\ Finish(p, [exc |-> FALSE, jobs |-> << >>, status |-> "failed"])
  /\ UNCHANGED << o_cfg, o_pc, o_probes, o_first, completed, portal_results,
                  all_jobs, cb_log, o_batch, p_store0, p_bulk, o_snap,
                  scraper_status, notOrchVars, storeVars >>

\* the main thread begins "for future in as_completed(futures)": the futures
\* already finished are yielded first, in no particular order
BeginCollect ==
  /\ o_pc = "submitted"
  /\ o_first' = { p \in PortalSet : t_pc[p] = "done" }
  /\ o_snap' = { p \in PortalSet : t_pc[p] = "done" }
  /\ o_pc' = "collect"
  /\ UNCHANGED << o_cfg, o_probes, t_pc, t_fn, t_ret, o_doneq,
                  completed, portal_results, all_jobs, cb_log, o_batch,
                  p_store0, p_bulk, o_order, scraper_status, notOrchVars, storeVars >>

\* a plausible slip: the callback is called before completed is incremented
CollectBodyStaleDone(p) ==
  IF t_ret[p].exc
  THEN /\ o_pc' = "raised"
       /\ UNCHANGED << completed, portal_results, all_jobs, cb_log >>
  ELSE /\ completed' = completed + 1
       /\ portal_results' = [portal_results EXCEPT ![p] =
            [status |-> t_ret[p].status, count |-> Len(t_ret[p].jobs)]]
       /\ all_jobs' = all_jobs \o t_ret[p].jobs
       /\ cb_log' = Append(cb_log, [portal |-> p, status |-> t_ret[p].status,
                                    count |-> Len(t_ret[p].jobs),
                                    done |-> completed, total |-> total])
       /\ UNCHANGED o_pc

\* one iteration of the loop over as_completed for the future of p
\* a plausible slip: only the sources that succeeded get an entry
CollectBodySuccessOnly(p) ==
  IF t_ret[p].exc
  THEN /\ o_pc' = "raised"
       /\ UNCHANGED << completed, portal_results, all_jobs, cb_log >>
  ELSE /\ completed' = completed + 1
       /\ portal_results' = IF t_ret[p].status = "success"
            THEN [portal_results EXCEPT ![p] =
                    [status |-> t_ret[p].status, count |-> Len(t_ret[p].jobs)]]
            ELSE portal_results
       /\ all_jobs' = all_jobs \o t_ret[p].jobs
       /\ cb_log' = Append(cb_log, [portal |-> p, status |-> t_ret[p].status,
                                    count |-> Len(t_ret[p].jobs),
                                    done |-> completed + 1, total |-> total])
       /\ UNCHANGED o_pc

CollectBody(p) ==
  IF t_ret[p].exc
  THEN /\ o_pc' = "raised"
       /\ UNCHANGED << completed, portal_results, all_jobs, cb_log >>
  ELSE /\ completed' = completed + 1
       /\ portal_results' = [portal_results EXCEPT ![p] =
            [status |-> t_ret[p].status, count |-> Len(t_ret[p].jobs)]]
       /\ all_jobs' = all_jobs \o t_ret[p].jobs
       /\ cb_log' = Append(cb_log, [portal |-> p, status |-> t_ret[p].status,
                                    count |-> Len(t_ret[p].jobs),
                                    done |-> completed + 1, total |-> total])
       /\ UNCHANGED o_pc

Collect ==
  /\ o_pc = "collect"
  /\ IF o_first # {}
     THEN \E p \in o_first :
            /\ o_first' = o_first \ { p }
            /\ CollectBody(p)
            /\ UNCHANGED o_doneq
     ELSE /\ o_doneq # << >>
          /\ o_doneq' = Tail(o_doneq)
          /\ CollectBody(Head(o_doneq))
          /\ UNCHANGED o_first
  /\ UNCHANGED << o_cfg, o_probes, t_pc, t_fn, t_ret, o_batch,
                  p_store0, p_bulk, o_snap, o_order, scraper_status, notOrchVars, storeVars >>

\* every future was yielded: deduplicate_jobs, return (all_jobs, portal_results)
ReturnRun ==
  /\ o_pc = "collect"
  /\ completed = total
  /\ o_batch' = deduplicate_jobs(all_jobs)
  /\ o_pc' = "returned"
  /\ UNCHANGED << o_cfg, o_probes, t_pc, t_fn, t_ret, o_first, o_doneq,
                  completed, portal_results, all_jobs, cb_log,
                  p_store0, p_bulk, o_snap, o_order, scraper_status, notOrchVars, storeVars >>

\* the jobs of a list with the job_id the pipeline gives them
WithIds(jobs) == [k \in 1..Len(jobs) |-> WithId(jobs[k])]

\* the except clause of the pipeline: the error text, phase 'error'
StatusError(e) == [running |-> FALSE, phase |-> "error", error |-> e]

\* the normal end of the pipeline
StatusDone == [running |-> FALSE, phase |-> "done", error |-> NoErrorText]

\* a plausible slip: an empty batch is raised as an error of the run
StoreBatchEmptyIsError ==
  /\ o_pc = "returned"
  /\ p_store0' = store
  /\ IF o_batch = << >>
     THEN /\ o_pc' = "error"
          /\ scraper_status' = StatusError("NoJobs")
          /\ UNCHANGED << store, p_bulk >>
     ELSE LET r == insert_jobs_bulk(store, WithIds(o_batch), 1) IN
            /\ store' = r.store
            /\ p_bulk' = [called |-> TRUE, exc |-> r.exc,
                          inserted |-> r.inserted, skipped |-> r.skipped]
            /\ o_pc' = IF r.exc # "" THEN "error" ELSE "stored"
            /\ scraper_status' = IF r.exc # "" THEN StatusError(r.exc)
                                 ELSE [scraper_status EXCEPT !.phase = "storing"]
  /\ UNCHANGED << o_cfg, o_probes, t_pc, t_fn, t_ret, o_first, o_doneq,
                  completed, portal_results, all_jobs, cb_log, o_batch,
                  db_last, db_prev, o_snap, o_order, notOrchVars >>

\* the pipeline after scrape_all_portals: an empty batch ends the run in
\* phase 'done'; otherwise the jobs are analyzed (their identity fields are
\* left alone), get their job_id and go to insert_jobs_bulk, whose exception
\* reaches the pipeline's except clause
StoreBatch ==
  /\ o_pc = "returned"
  /\ p_store0' = store
  /\ IF o_batch = << >>
     THEN /\ o_pc' = "done"
          /\ scraper_status' = StatusDone
          /\ UNCHANGED << store, p_bulk >>
     ELSE LET r == insert_jobs_bulk(store, WithIds(o_batch), 1) IN
            /\ store' = r.store
            /\ p_bulk' = [called |-> TRUE, exc |-> r.exc,
                          inserted |-> r.inserted, skipped |-> r.skipped]
            /\ o_pc' = IF r.exc # "" THEN "error" ELSE "stored"
            /\ scraper_status' = IF r.exc # "" THEN StatusError(r.exc)
                                 ELSE [scraper_status EXCEPT !.phase = "storing"]
  /\ UNCHANGED << o_cfg, o_probes, t_pc, t_fn, t_ret, o_first, o_doneq,
                  completed, portal_results, all_jobs, cb_log, o_batch,
                  db_last, db_prev, o_snap, o_order, notOrchVars >>

\* the phases after storing (alerts, contact enrichment, digest, e-mail):
\* they end normally, or one of them raises into the except clause
PipelineRest ==
  /\ o_pc = "stored"
  /\ o_pc' = "finished"
  /\ \E st \in { StatusDone, StatusError("Exception") } : scraper_status' = st
  /\ UNCHANGED << o_cfg, o_probes, t_pc, t_fn, t_ret, o_first, o_doneq,
                  completed, portal_results, all_jobs, cb_log, o_batch,
                  p_store0, p_bulk, o_snap, o_order, notOrchVars, storeVars >>

RunNext ==
  \/ StartRun
  \/ HealthCheck
  \/ SubmitAll
  \/ TaskStart
  \/ TaskReturn
  \/ TaskRaise
  \/ BeginCollect
  \/ Collect
  \/ ReturnRun
  \/ StoreBatch
  \/ PipelineRest

SpecRun == RunInit /\ [][RunNext]_vars

\* ------------------------------------------------------------------------
\* C1
\* ------------------------------------------------------------------------
FirstOccurrences(jobs) ==
  { i \in 1..Len(jobs) : \A j \in 1..(i - 1) : DedupKey(jobs[j]) # DedupKey(jobs[i]) }

\* the k-th smallest element of a finite set of integers
KthSmallest(S, k) ==
  CHOOSE x \in S : Cardinality({ y \in S : y < x }) = k - 1

\* C1: deduplicate_jobs returns, in input order, exactly the first occurrence
\* of every distinct lower-cased, trimmed (company, role, location) key, so
\* each key of the input appears exactly once in the output.
C1_DedupFirstOccurrence ==
  dd_pc = "done" =>
    LET firsts == FirstOccurrences(dd_in) IN
      /\ Len(dd_out) = Cardinality(firsts)
      /\ \A k \in 1..Len(dd_out) : dd_out[k] = dd_in[KthSmallest(firsts, k)]
      /\ \A i \in 1..Len(dd_in) :
           Cardinality({ k \in 1..Len(dd_out) : DedupKey(dd_out[k]) = DedupKey(dd_in[i]) }) = 1

\* a call that dropped a record whose raw fields differ from the retained one
C1_Witness ==
  /\ dd_pc = "done"
  /\ Len(dd_in) = 3
  /\ Len(dd_out) = 2
  /\ dd_in[1].company = <<"a">>
  /\ dd_in[2].company = <<"A", " ">>
  /\ dd_in[2].location = None
  /\ dd_in[1].location = <<>>
  /\ dd_in[3].company = <<"b">>

\* ------------------------------------------------------------------------
\* C6
\* ------------------------------------------------------------------------
FailedTwiceThenOk(log) ==
  /\ Len(log) = 3
  /\ log[1] = "fail"
  /\ log[2] = "fail"
  /\ log[3] # "fail"

RECURSIVE ParsedCount(_)
ParsedCount(hist) ==
  IF hist = << >> THEN 0
  ELSE Len(ParseIndeedPage(Head(hist).html)) + ParsedCount(Tail(hist))

\* C6: a fetch is not given up after two failed attempts; when the first two
\* attempts fail and the third succeeds fetch_url returns the body of the
\* third attempt, and the source's outcome is 'success' with count equal to
\* the number of records parsed from the bodies it fetched.
C6_RetryThenSuccess ==
  /\ s_pc = "fetched" => f_log # << "fail", "fail" >>
  /\ (s_pc = "fetched" /\ FailedTwiceThenOk(f_log)) => f_result = f_log[3]
  /\ (s_pc = "returned" /\ \E i \in 1..Len(s_hist) : FailedTwiceThenOk(s_hist[i].log)) =>
       /\ outcome.status = "success"
       /\ outcome.count = ParsedCount(s_hist)
       /\ \A i \in 1..Len(s_hist) :
            FailedTwiceThenOk(s_hist[i].log) => s_hist[i].html = s_hist[i].log[3]

\* a run whose only successful fetch needed three attempts and gave two records
C6_Witness ==
  /\ s_pc = "returned"
  /\ Len(s_hist) = NUrls
  /\ s_hist[1].log = << "fail", "fail", "cards3" >>
  /\ outcome = [status |-> "success", count |-> 2]

\* ------------------------------------------------------------------------
\* C7
\* ------------------------------------------------------------------------
InFetch == s_pc \in { "http", "selenium", "fetched" }

\* the cache file of the url was there and expired when fetch_url was called
Expired0 ==
  /\ f_entry0.present
  /\ f_t0 - f_entry0.mtime >= cfg.cache_expiry_hours

\* C7: a fetch_url for a url whose cache file has age >= TTL issues a real
\* request, and a successful request overwrites the file with the new body
\* and the time of the write.
C7_ExpiredIsRefetched ==
  /\ [] ((InFetch /\ Expired0) => f_attempt >= 1)
  /\ [][ (InFetch /\ Expired0 /\ s_pc # "fetched" /\ s_pc' = "fetched"
            /\ f_result' # NoHtml)
         => cache'[s_i] = [present |-> TRUE, body |-> f_result', mtime |-> now] ]_vars

\* an expired non-empty file was replaced by a different body at a later time
C7_Witness ==
  /\ s_pc = "fetched"
  /\ Expired0
  /\ cfg.cache_expiry_hours > 0
  /\ f_entry0.body = "json1"
  /\ f_result = "cards3"
  /\ cache[s_i] = [present |-> TRUE, body |-> "cards3", mtime |-> now]
  /\ now > f_entry0.mtime

\* ------------------------------------------------------------------------
\* C8
\* ------------------------------------------------------------------------
\* the cache file of the url was there and younger than the TTL at the call
Fresh0 ==
  /\ f_entry0.present
  /\ f_t0 - f_entry0.mtime < cfg.cache_expiry_hours

\* C8: a fetch_url for a url whose cache file is younger than the TTL returns
\* the stored body, whatever it is (the empty body included), issues no
\* request or render, and leaves the file as it was.
C8_FreshIsReturned ==
  (InFetch /\ Fresh0) =>
    /\ f_attempt = 0
    /\ s_pc = "fetched"
    /\ f_result = f_entry0.body
    /\ cache[s_i] = f_entry0

\* ------------------------------------------------------------------------
\* C9
\* ------------------------------------------------------------------------
\* C9: the cache holds a file for a url only if some attempt for that url
\* succeeded; a step in which an attempt fails (the last attempt of an
\* exhausted fetch included) leaves the cache as it was.
C9_NoNegativeCaching ==
  /\ [] (\A u \in Urls : cache[u].present => u \in fetched_ok)
  /\ [][ (Len(f_log') = Len(f_log) + 1 /\ f_log'[Len(f_log')] = "fail")
         => cache' = cache ]_vars

\* a fetch found an expired file, exhausted its attempts and left the file
\* as it was
C9_Witness ==
  /\ s_pc = "fetched"
  /\ f_log = << "fail", "fail", "fail" >>
  /\ f_result = NoHtml
  /\ f_entry0.present
  /\ f_entry0.body = "json1"
  /\ cache[s_i] = f_entry0

\* ------------------------------------------------------------------------
\* C10
\* ------------------------------------------------------------------------
\* C10: on a cache miss fetch_url stops at the first successful attempt,
\* never makes more attempts than the configured max_retries, and returns
\* None exactly when every attempt failed.
C10_RetryBound ==
  (InFetch /\ f_attempt >= 1) =>
    /\ f_attempt <= cfg.max_retries
    /\ \A k \in 1..(Len(f_log) - 1) : f_log[k] = "fail"
    /\ s_pc = "fetched" =>
         (f_result = NoHtml <=> \A k \in 1..Len(f_log) : f_log[k] = "fail")

\* ------------------------------------------------------------------------
\* C3
\* ------------------------------------------------------------------------
NormCompany(text) == strip(lower(text))

\* no row of st has the id of the job or is a posting of the same company
NoDuplicateStored(st, job) ==
  /\ ~job_exists(st, JobIdOf(job))
  /\ \A r \in st : NormCompany(r.company) # NormCompany(job.company)

\* C3: the same record submitted twice in sequence to insert_job is admitted
\* the first time (True, one row added) when no duplicate was stored, and
\* rejected the second time (False, store unchanged).
C3_InsertTwice ==
  (db_prev.called /\ db_last.job = db_prev.job) =>
    /\ NoDuplicateStored(db_prev.before, db_prev.job) =>
         /\ db_prev.exc = ""
         /\ db_prev.ret = TRUE
         /\ Cardinality(db_prev.after) = Cardinality(db_prev.before) + 1
    /\ db_last.exc = ""
    /\ db_last.ret = FALSE
    /\ db_last.after = db_last.before

\* ------------------------------------------------------------------------
\* C4
\* ------------------------------------------------------------------------
SamePosting(j, k) ==
  \/ j \in { JobSeniorPM, WithId(JobSeniorPM) } /\ k \in { JobSrPM, WithId(JobSrPM) }
  \/ k \in { JobSeniorPM, WithId(JobSeniorPM) } /\ j \in { JobSrPM, WithId(JobSrPM) }

\* C4: of 'Senior Product Manager' and 'Sr. Product Manager' at the same
\* normalized company, submitted one after the other to a store that holds
\* no duplicate of them, the first is admitted and the second is rejected,
\* so exactly one of the two is stored.
C4_FuzzyPair ==
  (db_prev.called /\ SamePosting(db_prev.job, db_last.job)
     /\ NoDuplicateStored(db_prev.before, db_prev.job)) =>
    /\ db_prev.exc = "" /\ db_prev.ret = TRUE
    /\ db_last.exc = "" /\ db_last.ret = FALSE
    /\ Cardinality({ r \in store : r.job_id \in { JobIdOf(db_prev.job), JobIdOf(db_last.job) } }) = 1

\* ------------------------------------------------------------------------
\* C2
\* ------------------------------------------------------------------------
RunReturned == o_pc \in { "returned", "done", "stored", "error", "finished" }

KeysOf(jobs) == { DedupKey(jobs[k]) : k \in 1..Len(jobs) }

\* C2: an exception raised by the task of a source never reaches the caller
\* of scrape_all_portals; the returned outcome map has ('failed', 0) for that
\* source, every other enabled source has the status and count of its own
\* result, and the records of the other sources are in the returned batch.
C2_TaskFailureIsolated ==
  /\ o_pc # "raised"
  /\ RunReturned =>
       /\ \A p \in EnabledSet :
            portal_results[p] =
              IF t_fn[p].exc THEN [status |-> "failed", count |-> 0]
              ELSE [status |-> "success", count |-> Len(t_fn[p].jobs)]
       /\ KeysOf(o_batch) =
            UNION { KeysOf(t_fn[p].jobs) : p \in { q \in EnabledSet : ~t_fn[q].exc } }

\* indeed raised while naukri returned two records and linkedin two
C2_Witness ==
  /\ o_pc = "returned"
  /\ t_fn["indeed"].exc
  /\ portal_results["indeed"] = [status |-> "failed", count |-> 0]
  /\ portal_results["naukri"] = [status |-> "success", count |-> 2]
  /\ portal_results["linkedin"] = [status |-> "success", count |-> 2]
  /\ Len(o_batch) = 3

\* ------------------------------------------------------------------------
\* C5
\* ------------------------------------------------------------------------
\* the run in which indeed returned the posting verbatim, naukri returned it
\* as 'ACME BANK' / 'Product Manager (Fintech)', and no other source returned
\* anything
SamePostingFromTwoSources ==
  /\ t_fn["indeed"] = [exc |-> FALSE, jobs |-> << JobAcmeVerbatim >>, status |-> "returned"]
  /\ t_fn["naukri"] = [exc |-> FALSE, jobs |-> << JobAcmeVariant >>, status |-> "returned"]
  /\ t_fn["linkedin"].jobs = << >>

\* C5: when two sources return the same posting, one verbatim and one in
\* another letter case with a parenthetical suffix on the role, then after
\* deduplicate_jobs and insert_jobs_bulk into an empty store exactly one
\* record is in the store, whichever source completed first.
C5_EndToEndOneStored ==
  (o_pc \in { "stored", "error" } /\ SamePostingFromTwoSources /\ p_store0 = {}) =>
    /\ p_bulk.exc = ""
    /\ Cardinality(store) = 1

\* ------------------------------------------------------------------------
\* scrapers.py: the request loop of a source task (scrape_indeed), with
\* fetch_url seen through the value it returns
\* ------------------------------------------------------------------------
\* what fetch_url can return: None after its last attempt failed, or a body
LoopBodies == Bodies \cup { "jsonbad" }

LoopInit ==
  /\ k_n \in 1..MaxRequests
  /\ k_i = 1
  /\ k_pc = "loop"
  /\ k_html = NoHtml
  /\ k_jobs = << >>
  /\ k_events = << >>
  /\ DedupIdle
  /\ FetchIdle
  /\ StoreIdle
  /\ OrchIdle
  /\ ParseIdle
  /\ ConcIdle
  /\ OpsIdle
  /\ TranspIdle
  /\ SeqIdle
  /\ AppIdle
  /\ GateIdle
  /\ EnIdle
  /\ CvIdle
  /\ MgIdle
  /\ DjIdle

\* html = fetch_url(url, config, use_selenium=use_selenium)
LoopFetch ==
  /\ k_pc = "loop"
  /\ k_i <= k_n
  /\ \E html \in LoopBodies \cup { NoHtml } : k_html' = html
  /\ k_events' = Append(k_events, "fetch")
  /\ k_pc' = "fetched"
  /\ UNCHANGED << k_n, k_i, k_jobs, notLoopVars >>

\* "if not html: continue", else the try block of the page; the JSON
\* strategy, the card strategy and the except branch all lead to a
\* random_delay call
LoopParse ==
  /\ k_pc = "fetched"
  /\ IF ~Truthy(k_html)
     THEN /\ k_pc' = "loop"
          /\ k_i' = k_i + 1
          /\ UNCHANGED k_jobs
     ELSE /\ k_jobs' = k_jobs \o ParseIndeedPage(k_html)
          /\ k_pc' = "delay"
          /\ UNCHANGED k_i
  /\ UNCHANGED << k_n, k_html, k_events, notLoopVars >>

\* random_delay(config), then the next iteration
LoopDelay ==
  /\ k_pc = "delay"
  /\ k_events' = Append(k_events, "delay")
  /\ k_pc' = "loop"
  /\ k_i' = k_i + 1
  /\ UNCHANGED << k_n, k_html, k_jobs, notLoopVars >>

\* return jobs
LoopReturn ==
  /\ k_pc = "loop"
  /\ k_i > k_n
  /\ k_pc' = "returned"
  /\ UNCHANGED << k_n, k_i, k_html, k_jobs, k_events, notLoopVars >>

LoopNext == LoopFetch \/ LoopParse \/ LoopDelay \/ LoopReturn

SpecLoop == LoopInit /\ [][LoopNext]_vars

\* ------------------------------------------------------------------------
\* C11
\* ------------------------------------------------------------------------
\* some fetch_url of the finished task made every attempt and all failed
SomeFetchExhausted ==
  \E i \in 1..Len(s_hist) :
    /\ Len(s_hist[i].log) = retries
    /\ \A k \in 1..retries : s_hist[i].log[k] = "fail"

\* C11: when a fetch of a source exhausts all its retries, the outcome that
\* run_scraper reports for that source is 'failed'.
C11_ExhaustionIsFailed ==
  (s_pc = "returned" /\ SomeFetchExhausted) => outcome.status = "failed"


\* ------------------------------------------------------------------------
\* C12
\* ------------------------------------------------------------------------
WellFormed(f) == f.exc = "" /\ HasRoleAndCompany(f)

\* the records of the well-formed fragments of a list, in order
RECURSIVE RecordsOfWellFormed(_, _)
RecordsOfWellFormed(frags, portal) ==
  IF frags = << >> THEN << >>
  ELSE (IF WellFormed(Head(frags)) THEN << PortalJob(portal, Head(frags)) >> ELSE << >>)
       \o RecordsOfWellFormed(Tail(frags), portal)

\* the fragments an extractor reads: the structured-data items when they
\* hold a well-formed one, the markup cards otherwise
FragmentRecords(items, cards, portal) ==
  IF RecordsOfWellFormed(items, portal) # << >>
  THEN RecordsOfWellFormed(items, portal)
  ELSE RecordsOfWellFormed(cards, portal)

\* C12: the records an extractor adds for a response are exactly the records
\* of its well-formed fragments with non-empty company and role; a fragment
\* that is malformed or has an empty company or role adds nothing and
\* removes nothing of its siblings.
C12_FragmentIsolation ==
  /\ pg_pc = "indeed" => pg_out = FragmentRecords(pg_items, pg_cards, "Indeed")
  /\ pg_pc = "naukri" => pg_out = FragmentRecords(pg_items, pg_cards, "Naukri")
  /\ pg_pc = "linkedin" => pg_out = RecordsOfWellFormed(pg_cards, "LinkedIn")


\* ------------------------------------------------------------------------
\* C13
\* ------------------------------------------------------------------------
RowOf(st, job_id) == CHOOSE r \in st : r.job_id = job_id

HasRow(st, job_id) == \E r \in st : r.job_id = job_id

\* C13: in every reachable state of the table, under every interleaving of
\* concurrent insert_job calls, no two rows have the same job_id, and a call
\* for a job_id that was stored when the call began returns False, raises
\* nothing and leaves the stored row as it was.
C13_KeyUnique ==
  /\ \A r1, r2 \in store : r1.job_id = r2.job_id => r1 = r2
  /\ \A c \in Callers :
       (c_pc[c] = "done" /\ HasRow(c_store0[c], JobIdOf(c_job[c]))) =>
         /\ c_res[c] = [exc |-> "", ret |-> FALSE]
         /\ HasRow(store, JobIdOf(c_job[c]))
         /\ RowOf(store, JobIdOf(c_job[c])) = RowOf(c_store0[c], JobIdOf(c_job[c]))

\* two calls for the same stored job_id overlapped and both were rejected,
\* the record of the second differing from the stored row in its text
C13_Witness ==
  /\ c_pc[1] = "done" /\ c_pc[2] = "done"
  /\ c_job[1] = WithId(JobAcmeVerbatim)
  /\ c_job[2] = JobAcmeUpper
  /\ c_res[1] = [exc |-> "", ret |-> FALSE]
  /\ c_res[2] = [exc |-> "", ret |-> FALSE]
  /\ RowOf(store, JobIdOf(c_job[2])).company = T_AcmeBank


\* ------------------------------------------------------------------------
\* C14
\* ------------------------------------------------------------------------
\* the portals of the callback calls, in call order
CallbackPortals == [k \in 1..Len(cb_log) |-> cb_log[k].portal]

\* position of a portal in a sequence without repetitions
PosIn(seq, p) == CHOOSE k \in 1..Len(seq) : seq[k] = p

\* each enabled source once, done = 1..N, total = N, status and count as in
\* the returned outcome map
CallbackCounts ==
  /\ Len(cb_log) = total
  /\ \A p \in EnabledSet : \E k \in 1..Len(cb_log) : cb_log[k].portal = p
  /\ \A k \in 1..Len(cb_log) :
       /\ cb_log[k].done = k
       /\ cb_log[k].total = total
       /\ cb_log[k].status = portal_results[cb_log[k].portal].status
       /\ cb_log[k].count = portal_results[cb_log[k].portal].count

\* C14 as stated: the callback is invoked N times, once per enabled source,
\* in the order the source tasks completed, with done = 1..N, total = N and
\* the status and count of the outcome map.
C14_CallbackInCompletionOrder ==
  RunReturned => (CallbackCounts /\ CallbackPortals = o_order)

\* C14 as amended: the same counts and arguments; a source is reported only
\* after its task completed; the sources whose tasks had completed when the
\* collection began come first, in no particular order, and the other
\* sources follow in the order their tasks completed.
C14_CallbackAsYielded ==
  /\ \A k \in 1..Len(cb_log) : t_pc[cb_log[k].portal] = "done"
  /\ RunReturned =>
       /\ CallbackCounts
       /\ \A p \in o_snap : \A q \in EnabledSet \ o_snap :
            PosIn(CallbackPortals, p) < PosIn(CallbackPortals, q)
       /\ \A p, q \in EnabledSet \ o_snap :
            PosIn(o_order, p) < PosIn(o_order, q) =>
              PosIn(CallbackPortals, p) < PosIn(CallbackPortals, q)

\* three sources, two workers: naukri finished before indeed and both before
\* the collection began, linkedin after; the callback reported indeed first
C14_Witness ==
  /\ o_pc = "returned"
  /\ total = 3
  /\ o_order = << "naukri", "indeed", "linkedin" >>
  /\ o_snap = { "naukri", "indeed" }
  /\ CallbackPortals = << "indeed", "naukri", "linkedin" >>
  /\ cb_log[3] = [portal |-> "linkedin", status |-> "failed", count |-> 0,
                  done |-> 3, total |-> 3]


\* ------------------------------------------------------------------------
\* C15
\* ------------------------------------------------------------------------
\* every enabled source ran and produced no record (it returned an empty
\* list or it raised)
EverySourceEmpty ==
  \A p \in EnabledSet : t_fn[p].status # "none" /\ t_fn[p].jobs = << >>

\* C15: when every source produces zero records, scrape_all_portals raises
\* nothing and returns an empty batch with an outcome for every enabled
\* source, and the pipeline ends in phase 'done' with running False and no
\* error recorded.
C15_EmptyBatchIsDone ==
  /\ (o_pc = "raised") => ~EverySourceEmpty
  /\ (RunReturned /\ EverySourceEmpty) =>
       /\ o_batch = << >>
       /\ \A p \in EnabledSet : portal_results[p].status \in { "success", "failed" }
       /\ o_pc \in { "returned", "done" }
       /\ o_pc = "done" => scraper_status = StatusDone

\* three sources, one raised and two returned nothing; the pipeline is done
C15_Witness ==
  /\ o_pc = "done"
  /\ total = 3
  /\ EverySourceEmpty
  /\ portal_results["indeed"].status = "failed"
  /\ portal_results["naukri"].status = "success"
  /\ scraper_status = [running |-> FALSE, phase |-> "done", error |-> NoErrorText]


\* ------------------------------------------------------------------------
\* C16
\* ------------------------------------------------------------------------
Identity(r) == << r.job_id, r.portal, r.company, r.role, r.location >>

\* C16: no store operation other than deletion (mark_sent_in_digest,
\* update_applied_status, update_job_contacts, hide_job, update_job_notes, a
\* later insert_job) changes the job_id, portal, company, role or location
\* of a row that is in the table: after the operation the table has exactly
\* one row with that job_id and its identity fields are the same.
C16_IdentityFrame ==
  [][ \A r \in store :
        /\ \E r2 \in store' : r2.job_id = r.job_id
        /\ \A r2 \in store' : r2.job_id = r.job_id => Identity(r2) = Identity(r) ]_vars

\* a row was marked applied, then hidden: its annotations changed, its
\* identity is that of the row as admitted
C16_Witness ==
  /\ u_last.op = "hide_job"
  /\ \E r \in store :
       /\ r.hidden = 1
       /\ r.applied_status = 1
       /\ r.applied_date = "now"
       /\ Identity(r) = Identity(NewRow(JobSeniorPM, 0))
  /\ \E r \in u_last.before :
       r.hidden = 0 /\ Identity(r) = Identity(NewRow(JobSeniorPM, 0))


ProbeLog == [k \in 1..Len(o_probes) |-> o_probes[k].portal]

\* C18: before any source task is submitted every enabled source with a
\* base_url has been probed exactly once, and whatever the results of the
\* probes every enabled source's task is submitted, and has run when
\* scrape_all_portals returns.
C18_ProbeThenSubmitAll ==
  /\ o_pc \in { "idle", "health" } => \A p \in PortalSet : t_pc[p] = "none"
  /\ o_pc \notin { "idle", "health" } =>
       /\ ProbeLog = ProbedPortals
       /\ \A p \in EnabledSet : t_pc[p] # "none"
  /\ RunReturned => \A p \in EnabledSet : t_fn[p].status # "none"

\* indeed answered with an error status and linkedin's probe failed in
\* transport; both tasks ran and indeed returned a record
C18_Witness ==
  /\ o_pc = "returned"
  /\ total = 3
  /\ o_probes = << [portal |-> "indeed", result |-> "down"],
                   [portal |-> "linkedin", result |-> "error"] >>
  /\ portal_results["indeed"] = [status |-> "success", count |-> 1]
  /\ t_fn["linkedin"].status = "returned"

\* ------------------------------------------------------------------------
\* scrapers.py: the requests of the source tasks of one run of
\* scrape_all_portals. A scraper function is straight-line code in one worker
\* thread: requests.get blocks until the response (or the exception), and
\* only then does the loop go on to its next (title, location, page).
\* ------------------------------------------------------------------------
SeqBaseUrlChoices == { {}, { "indeed" } }

SeqInit ==
  /\ o_cfg \in [enabled : SUBSET PortalSet, base_url : SeqBaseUrlChoices,
                thread_count : ThreadChoices]
  /\ OrchRest
  /\ SeqIdle
  /\ AppIdle
  /\ GateIdle
  /\ EnIdle
  /\ CvIdle
  /\ MgIdle
  /\ DjIdle
  /\ StoreIdle
  /\ DedupIdle
  /\ FetchIdle
  /\ ParseIdle
  /\ ConcIdle
  /\ OpsIdle
  /\ TranspIdle
  /\ LoopIdle

\* a plausible slip: the task sends its next request without waiting for the
\* response of the one before
SeqRequestNoWait ==
  /\ o_pc = "submitted"
  /\ \E p \in Running :
       /\ Len(r_issued[p]) < MaxRequests
       /\ r_issued' = [r_issued EXCEPT ![p] = Append(@, Len(@) + 1)]
       /\ r_inflight' = [r_inflight EXCEPT ![p] = @ \cup { Len(r_issued[p]) + 1 }]
  /\ UNCHANGED << orchVars, notSeqVars >>

\* the running task of p calls fetch_url for the next url of its loop: the
\* request is sent
SeqRequest ==
  /\ o_pc = "submitted"
  /\ \E p \in Running :
       /\ Len(r_issued[p]) < MaxRequests
       /\ r_inflight[p] = {}
       /\ r_issued' = [r_issued EXCEPT ![p] = Append(@, Len(@) + 1)]
       /\ r_inflight' = [r_inflight EXCEPT ![p] = @ \cup { Len(r_issued[p]) + 1 }]
  /\ UNCHANGED << orchVars, notSeqVars >>

\* the response of a request arrives (or its attempts are exhausted) and
\* fetch_url returns to the loop
SeqResponse ==
  /\ o_pc = "submitted"
  /\ \E p \in Running : \E k \in r_inflight[p] :
       r_inflight' = [r_inflight EXCEPT ![p] = @ \ { k }]
  /\ UNCHANGED << r_issued, orchVars, notSeqVars >>

\* the loops of the scraper function of p are over and it returns its jobs
SeqFinish ==
  /\ o_pc = "submitted"
  /\ \E p \in Running : \E jobs \in TaskResults(p) :
       /\ Len(r_issued[p]) = MaxRequests
       /\ r_inflight[p] = {}
       /\ t_fn' = [t_fn EXCEPT ![p] = [exc |-> FALSE, jobs |-> jobs, status |-> "returned"]]
       /\ Finish(p, [exc |-> FALSE, jobs |-> jobs, status |-> "success"])
  /\ UNCHANGED << o_cfg, o_pc, o_probes, o_first, completed, portal_results,
                  all_jobs, cb_log, o_batch, p_store0, p_bulk, o_snap,
                  scraper_status, seqVars, notSeqVars >>

SeqNext ==
  \/ StartRun
  \/ HealthCheck
  \/ SubmitAll
  \/ TaskStart
  \/ SeqRequest
  \/ SeqResponse
  \/ SeqFinish

SpecSeq == SeqInit /\ [][SeqNext]_vars

\* ------------------------------------------------------------------------
\* C19: between any two consecutive fetches of a source task a politeness
\* delay elapses, whatever the result of the earlier fetch: in the task's
\* sequence of fetch_url and random_delay calls no fetch directly follows
\* another fetch.
\* ------------------------------------------------------------------------
C19_DelayBetweenFetches ==
  \A j \in 1..(Len(k_events) - 1) :
    ~(k_events[j] = "fetch" /\ k_events[j + 1] = "fetch")

\* ------------------------------------------------------------------------
\* C20: within one run every enabled source has exactly one task and no
\* other source has one; the task issues its requests in loop order, one at
\* a time: at no time are two requests of the same source in flight, and a
\* finished task has issued each request of its loop once. Tasks of
\* different sources may have requests in flight together (witness).
\* ------------------------------------------------------------------------
C20_PerSourceSequencing ==
  /\ o_pc = "submitted" =>
       \A p \in PortalSet : (t_pc[p] # "none") <=> (p \in EnabledSet)
  /\ \A p \in PortalSet :
       /\ r_issued[p] # << >> => p \in EnabledSet /\ t_pc[p] \in { "running", "done" }
       /\ \A k \in 1..Len(r_issued[p]) : r_issued[p][k] = k
       /\ Cardinality(r_inflight[p]) <= 1
       /\ r_inflight[p] \subseteq { Len(r_issued[p]) }
       /\ r_inflight[p] # {} => t_pc[p] = "running"
       /\ t_pc[p] = "done" => Len(r_issued[p]) = MaxRequests

C20_Witness ==
  \E p \in PortalSet : \E q \in PortalSet \ { p } :
    /\ r_inflight[p] # {}
    /\ r_inflight[q] # {}
    /\ Len(r_issued[p]) >= 2
    /\ t_pc[p] = "running"
    /\ t_pc[q] = "running"

\* ------------------------------------------------------------------------
\* database.py: dedup_jobs
\* ------------------------------------------------------------------------
T_AcmePadded == << " ", "a", "c", "m", "e", " " >>

DjCompanies == { T_Acme, T_AcmePadded }
DjRoles == { T_PM, T_SrPM }
DjScores == { 0, 1 }
DjDates == { 0, 1 }

DjRow(id, company, role, score, date) ==
  [job_id |-> id, company |-> company, role |-> role,
   relevance_score |-> score, date_found |-> date]

\* the table with rows 1..n whose columns are given by f; job_id is the
\* primary key
DjTable(n, f) == { DjRow(id, f[id][1], f[id][2], f[id][3], f[id][4]) : id \in 1..n }

\* (LOWER(TRIM(company)), LOWER(TRIM(role)))
DjKey(r) == << lower(strip(r.company)), lower(strip(r.role)) >>

\* a plausible slip: ORDER BY relevance_score ASC
RowBeforeLowestFirst(a, b) ==
  \/ a.relevance_score < b.relevance_score
  \/ a.relevance_score = b.relevance_score /\ a.date_found < b.date_found

\* ORDER BY relevance_score DESC, date_found ASC: a must come before b
RowBefore(a, b) ==
  \/ a.relevance_score > b.relevance_score
  \/ a.relevance_score = b.relevance_score /\ a.date_found < b.date_found

\* the lists that the SELECT may return: rows that the ORDER BY does not
\* separate come in any order
SelectOrders(table) ==
  LET n == Cardinality(table) IN
    { s \in [1..n -> table] :
        /\ \A i, j \in 1..n : i # j => s[i] # s[j]
        /\ \A i, j \in 1..n : i < j => ~RowBefore(s[j], s[i]) }

\* the loop over rows: seen and to_delete
RECURSIVE DjLoop(_, _, _, _)
DjLoop(rows, i, seen, to_delete) ==
  IF i > Len(rows) THEN to_delete
  ELSE IF DjKey(rows[i]) \notin seen
       THEN DjLoop(rows, i + 1, seen \cup { DjKey(rows[i]) }, to_delete)
       ELSE DjLoop(rows, i + 1, seen, Append(to_delete, rows[i].job_id))

\* dedup_jobs on a table whose SELECT returned rows: the table after the
\* DELETE statements, and the sum of their rowcounts
dedup_jobs(table, rows) ==
  LET to_delete == DjLoop(rows, 1, {}, << >>)
      ids == { to_delete[k] : k \in 1..Len(to_delete) }
  IN  [table |-> { r \in table : r.job_id \notin ids },
       deleted |-> Cardinality({ r \in table : r.job_id \in ids })]

DjInit ==
  /\ \E n \in 0..MaxRows :
       \E f \in [1..n -> DjCompanies \X DjRoles \X DjScores \X DjDates] :
         dj_table = DjTable(n, f)
  /\ dj_calls = 0
  /\ dj_ret = 0
  /\ dj_before = {}
  /\ DedupIdle
  /\ FetchIdle
  /\ StoreIdle
  /\ OrchIdle
  /\ ParseIdle
  /\ ConcIdle
  /\ OpsIdle
  /\ TranspIdle
  /\ LoopIdle
  /\ SeqIdle
  /\ AppIdle
  /\ GateIdle
  /\ EnIdle
  /\ CvIdle
  /\ MgIdle

CallDedupJobs ==
  /\ dj_calls < 2
  /\ \E rows \in SelectOrders(dj_table) :
       LET res == dedup_jobs(dj_table, rows) IN
         /\ dj_table' = res.table
         /\ dj_ret' = res.deleted
  /\ dj_before' = dj_table
  /\ dj_calls' = dj_calls + 1
  /\ UNCHANGED notDjVars

DjNext == CallDedupJobs

SpecDj == DjInit /\ [][DjNext]_vars

\* ------------------------------------------------------------------------
\* C21: after dedup_jobs, of every (company, role) pair of the table before
\* the call exactly one row remains, unchanged, and it has the highest
\* relevance_score of the pair and, among the rows with that score, the
\* earliest date_found; the rows of pairs with a single row are all still
\* there; the returned number is the number of rows removed; the second of
\* two calls in a row removes nothing and returns 0.
\* ------------------------------------------------------------------------
RowsOfPair(table, key) == { r \in table : DjKey(r) = key }

BestOfPair(table, key) ==
  { r \in RowsOfPair(table, key) :
      \A q \in RowsOfPair(table, key) :
        \/ r.relevance_score > q.relevance_score
        \/ r.relevance_score = q.relevance_score /\ r.date_found <= q.date_found }

C21_DedupJobsKeepsBest ==
  dj_calls >= 1 =>
    /\ dj_table \subseteq dj_before
    /\ \A r \in dj_before :
         /\ Cardinality(RowsOfPair(dj_table, DjKey(r))) = 1
         /\ RowsOfPair(dj_table, DjKey(r)) \subseteq BestOfPair(dj_before, DjKey(r))
         /\ Cardinality(RowsOfPair(dj_before, DjKey(r))) = 1 => r \in dj_table
    /\ dj_ret = Cardinality(dj_before) - Cardinality(dj_table)
    /\ dj_calls = 2 => dj_ret = 0 /\ dj_table = dj_before

\* a pair with three rows of which the best is neither the first nor alone
C21_Witness ==
  /\ dj_calls = 1
  /\ dj_ret = 2
  /\ \E r \in dj_table :
       /\ Cardinality(RowsOfPair(dj_before, DjKey(r))) = 3
       /\ r.relevance_score = 1
       /\ r.date_found = 0
       /\ r.job_id = 3
       /\ \E q \in dj_before : q.relevance_score = 1 /\ q.date_found = 1

\* ------------------------------------------------------------------------
\* database.py: init_db
\* ------------------------------------------------------------------------
NoTable == [exists |-> FALSE, columns |-> {}, rows |-> {}]

\* the columns of the CREATE TABLE statement
OriginalColumns ==
  { "job_id", "portal", "company", "role", "salary", "salary_currency",
    "location", "job_description", "apply_url", "relevance_score",
    "remote_status", "company_type", "date_found", "date_sent_in_digest",
    "applied_status", "applied_date", "user_notes" }

\* the columns of the ALTER TABLE ... ADD COLUMN statements, in order
MigrationColumns ==
  << "date_posted", "poster_name", "poster_email", "poster_phone",
     "poster_linkedin", "experience_min", "experience_max", "salary_min",
     "salary_max", "follow_up_date", "rejection_reason", "company_size",
     "company_funding_stage", "company_glassdoor_rating", "cv_score", "hidden" >>

\* the DEFAULT of an added column
ColumnDefault(col) == IF col \in { "cv_score", "hidden" } THEN "0" ELSE Null

\* CREATE TABLE IF NOT EXISTS job_listings (...)
CreateTableIfNotExists(db) ==
  IF db.exists THEN db
  ELSE [exists |-> TRUE, columns |-> OriginalColumns, rows |-> {}]

\* ALTER TABLE job_listings ADD COLUMN col: OperationalError (duplicate
\* column name) when the table has the column, else every row gets the
\* column with its default
AddColumn(db, col) ==
  IF col \in db.columns THEN [exc |-> "OperationalError", db |-> db]
  ELSE [exc |-> "",
        db |-> [db EXCEPT !.columns = @ \cup { col },
                          !.rows = { [c \in db.columns \cup { col } |->
                                        IF c = col THEN ColumnDefault(col) ELSE r[c]] :
                                     r \in db.rows }]]

\* the ALTER statements without their try/except
RECURSIVE AddColumnsUnguarded(_, _)
AddColumnsUnguarded(db, k) ==
  IF k > Len(MigrationColumns) THEN [exc |-> "", db |-> db]
  ELSE LET res == AddColumn(db, MigrationColumns[k]) IN
         IF res.exc # "" THEN res
         ELSE AddColumnsUnguarded(res.db, k + 1)

\* the loops over the ALTER statements: "except sqlite3.OperationalError: pass"
RECURSIVE AddColumns(_, _)
AddColumns(db, k) ==
  IF k > Len(MigrationColumns) THEN [exc |-> "", db |-> db]
  ELSE AddColumns(AddColumn(db, MigrationColumns[k]).db, k + 1)

\* a plausible slip: init_db without the try/except around its ALTER
\* statements
init_db_unguarded(db) == AddColumnsUnguarded(CreateTableIfNotExists(db), 1)

init_db(db) == AddColumns(CreateTableIfNotExists(db), 1)

\* the tables that init_db may find: none, or one that earlier versions of
\* init_db left, with the first n migration columns, and up to MaxRows rows
MigratedColumns(n) == OriginalColumns \cup { MigrationColumns[k] : k \in 1..n }

MgRow(columns, id) == [c \in columns |-> IF c = "job_id" THEN id ELSE "v"]

MgInit ==
  /\ \/ mg_db = NoTable
     \/ \E n \in 0..Len(MigrationColumns), m \in 0..MaxRows :
          mg_db = [exists |-> TRUE, columns |-> MigratedColumns(n),
                   rows |-> { MgRow(MigratedColumns(n), id) : id \in 1..m }]
  /\ mg_calls = 0
  /\ mg_exc = ""
  /\ mg_db0 = mg_db
  /\ DedupIdle
  /\ FetchIdle
  /\ StoreIdle
  /\ OrchIdle
  /\ ParseIdle
  /\ ConcIdle
  /\ OpsIdle
  /\ TranspIdle
  /\ LoopIdle
  /\ SeqIdle
  /\ AppIdle
  /\ GateIdle
  /\ EnIdle
  /\ CvIdle
  /\ DjIdle

CallInitDb ==
  /\ mg_calls < 2
  /\ mg_exc = ""
  /\ LET res == init_db(mg_db) IN
       /\ mg_db' = res.db
       /\ mg_exc' = res.exc
  /\ mg_calls' = mg_calls + 1
  /\ UNCHANGED << mg_db0, notMgVars >>

MgNext == CallInitDb

SpecMg == MgInit /\ [][MgNext]_vars

\* ------------------------------------------------------------------------
\* C22: after one or more init_db calls, whatever the table was before (none,
\* original columns only, partly or fully migrated), job_listings exists with
\* every original and every migration column (cv_score among them), no call
\* has raised, and every row that existed is still there with the values it
\* had in the columns it had.
\* ------------------------------------------------------------------------
C22_InitDbIdempotent ==
  mg_calls >= 1 =>
    /\ mg_exc = ""
    /\ mg_db.exists
    /\ mg_db.columns = MigratedColumns(Len(MigrationColumns))
    /\ "cv_score" \in mg_db.columns
    /\ Cardinality(mg_db.rows) = Cardinality(mg_db0.rows)
    /\ \A r \in mg_db0.rows :
         \E q \in mg_db.rows : \A c \in mg_db0.columns : q[c] = r[c]

\* a second call on a table that the first call migrated from the original
\* columns, with rows in it
C22_Witness ==
  /\ mg_calls = 2
  /\ mg_db0.exists
  /\ mg_db0.columns = OriginalColumns
  /\ Cardinality(mg_db0.rows) >= 2

\* ------------------------------------------------------------------------
\* analyzer.py: extract_skills, cv_score
\* ------------------------------------------------------------------------
\* display labels of _SKILL_PATTERNS, in the order of the dictionary
SkillPatterns == << "Agile", "SQL", "Python" >>

\* the skills a cv_data may list: labels, other spellings and other skills
CvSkillNames == { "Agile", "SQL", "sql", "Python", "Cooking" }

\* words of four letters or more, lower-cased
CvWords == { "bank", "product" }

\* cv_data None: no CV was uploaded
NoCv == [given |-> FALSE, skills |-> {}, words |-> {}]

\* str.lower on the names above
SkillLower(s) ==
  CASE s = "Agile" -> "agile"
    [] s = "SQL" -> "sql"
    [] s = "Python" -> "python"
    [] s = "Cooking" -> "cooking"
    [] OTHER -> s

\* found[:max_skills]
Take(seq, n) == SubSeq(seq, 1, IF Len(seq) < n THEN Len(seq) ELSE n)

\* extract_skills on a text that matches the patterns of the labels in
\* matching: the labels found, in dictionary order, cut at max_skills
RECURSIVE FoundSkills(_, _)
FoundSkills(matching, k) ==
  IF k > Len(SkillPatterns) THEN << >>
  ELSE IF SkillPatterns[k] \in matching
       THEN << SkillPatterns[k] >> \o FoundSkills(matching, k + 1)
       ELSE FoundSkills(matching, k + 1)

extract_skills(matching, max_skills) == Take(FoundSkills(matching, 1), max_skills)

\* min(a, b)
Min2(a, b) == IF a < b THEN a ELSE b

\* int(a / b * 100)
Percent(a, b) == (a * 100) \div b

\* a plausible slip: the matched skills are divided by the number of CV skills
cv_score_over_cv_skills(job, data) ==
  IF ~data.given THEN 0
  ELSE LET cv_skills_lower == { SkillLower(x) : x \in data.skills }
           jd_skills == extract_skills(job.skills, 20)
           matched == SelectSeq(jd_skills, LAMBDA x : SkillLower(x) \in cv_skills_lower)
       IN  IF cv_skills_lower = {} THEN 0
           ELSE IF jd_skills = << >>
                THEN IF job.words = {} THEN 0
                     ELSE Min2(Percent(Cardinality(job.words \cap data.words),
                                       Cardinality(job.words)), 100)
                ELSE Min2(Percent(Len(matched), Cardinality(cv_skills_lower)), 100)

cv_score(job, data) ==
  IF ~data.given THEN 0
  ELSE LET cv_skills_lower == { SkillLower(x) : x \in data.skills }
           jd_skills == extract_skills(job.skills, 20)
           matched == SelectSeq(jd_skills, LAMBDA x : SkillLower(x) \in cv_skills_lower)
       IN  IF cv_skills_lower = {} THEN 0
           ELSE IF jd_skills = << >>
                THEN IF job.words = {} THEN 0
                     ELSE Min2(Percent(Cardinality(job.words \cap data.words),
                                       Cardinality(job.words)), 100)
                ELSE Min2(Percent(Len(matched), Len(jd_skills)), 100)

CvInit ==
  /\ cv_job \in [skills : SUBSET { SkillPatterns[k] : k \in 1..Len(SkillPatterns) },
                 words : SUBSET CvWords]
  /\ cv_data \in { NoCv } \cup [given : { TRUE }, skills : SUBSET CvSkillNames,
                                words : SUBSET CvWords]
  /\ cv_pc = "ready"
  /\ cv_ret = 0
  /\ cv_last = -1
  /\ DedupIdle
  /\ FetchIdle
  /\ StoreIdle
  /\ OrchIdle
  /\ ParseIdle
  /\ ConcIdle
  /\ OpsIdle
  /\ TranspIdle
  /\ LoopIdle
  /\ SeqIdle
  /\ AppIdle
  /\ GateIdle
  /\ EnIdle
  /\ DjIdle
  /\ MgIdle

CallCvScore ==
  /\ cv_pc = "ready"
  /\ cv_ret' = cv_score(cv_job, cv_data)
  /\ cv_pc' = "scored"
  /\ UNCHANGED << cv_job, cv_data, cv_last, notCvVars >>

\* a skill is added to the skill set of the CV
AddCvSkill ==
  /\ cv_pc = "scored"
  /\ cv_data.given
  /\ \E x \in CvSkillNames \ cv_data.skills :
       cv_data' = [cv_data EXCEPT !.skills = @ \cup { x }]
  /\ cv_last' = cv_ret
  /\ cv_pc' = "ready"
  /\ UNCHANGED << cv_job, cv_ret, notCvVars >>

CvNext == CallCvScore \/ AddCvSkill

SpecCv == CvInit /\ [][CvNext]_vars

\* ------------------------------------------------------------------------
\* C23: cv_score returns an integer from 0 to 100; it returns 0 when there
\* is no CV data or the CV lists no skills; for a fixed job the score after a
\* skill was added to the CV is not below the score before.
\* ------------------------------------------------------------------------
C23_CvScoreRangeAndMonotone ==
  cv_pc = "scored" =>
    /\ cv_ret \in 0..100
    /\ ~cv_data.given => cv_ret = 0
    /\ cv_data.skills = {} => cv_ret = 0
    /\ cv_last # -1 => cv_ret >= cv_last

\* a job with three skills, a CV that matched one and after the addition
\* matches two of them
C23_Witness ==
  /\ cv_pc = "scored"
  /\ cv_last = 33
  /\ cv_ret = 66

\* ------------------------------------------------------------------------
\* contact_scraper.py: enrich_jobs_with_contacts
\* ------------------------------------------------------------------------
\* what extract_contacts_from_text finds in a text: emails and LinkedIn
\* urls, each in order of appearance
Contacts(emails, linkedin_urls) == [emails |-> emails, linkedin_urls |-> linkedin_urls]

NoContacts == Contacts(<< >>, << >>)

\* descriptions: without contact, with two emails, with a LinkedIn url only
EnDescriptions ==
  { NoContacts, Contacts(<< "hr@jd", "jobs@jd" >>, << >>), Contacts(<< >>, << "in/jd" >>) }

EnCompanies == { << >>, T_Acme, T_AcmePadded, T_AcmeBank }

\* the job_id of the k-th job of the list: the primary key of its row
EnJobIds == { "j1", "j2", "j3", "j4" }
EnJobId(k) == CASE k = 1 -> "j1" [] k = 2 -> "j2" [] k = 3 -> "j3" [] OTHER -> "j4"

EnJob(k, has_id, company, description) ==
  [job_id |-> IF has_id THEN EnJobId(k) ELSE "", company |-> company,
   job_description |-> description]

\* what a lookup of a company's website, and of the search engine, may find
WebsiteFinds == { NoContacts, Contacts(<< "hr@web" >>, << >>), Contacts(<< >>, << "in/web" >>) }
SearchFinds == { NoContacts, Contacts(<< "hr@search" >>, << "in/search" >>) }

\* "if emails or linkedin_urls"
HasContact(c) == c.emails # << >> \/ c.linkedin_urls # << >>

\* the entry of results for the contacts found
ContactEntry(c) ==
  [poster_name |-> "",
   poster_email |-> IF c.emails # << >> THEN c.emails[1] ELSE "",
   poster_phone |-> "",
   poster_linkedin |-> IF c.linkedin_urls # << >> THEN c.linkedin_urls[1] ELSE ""]

\* results[job_id] = entry
SetKey(d, key, value) == [x \in DOMAIN d \cup { key } |-> IF x = key THEN value ELSE d[x]]

\* a plausible slip: the lookup is made without consulting company_cache
NeedsLookupUncached(job, company_cache) == ~HasContact(job.job_description)

\* strategies 2 and 3 are run for the job: its description yields nothing
\* and its company is not in company_cache
NeedsLookup(job, company_cache) ==
  /\ ~HasContact(job.job_description)
  /\ lower(strip(job.company)) \notin DOMAIN company_cache

EnInit ==
  /\ \E n \in 0..MaxEnrich :
       \E f \in [1..n -> BOOLEAN \X EnCompanies \X EnDescriptions] :
         e_jobs = [k \in 1..n |-> EnJob(k, f[k][1], f[k][2], f[k][3])]
  /\ e_i = 1
  /\ e_results = << >>
  /\ e_cache = << >>
  /\ e_log = << >>
  /\ e_pc = "loop"
  /\ DedupIdle
  /\ FetchIdle
  /\ StoreIdle
  /\ OrchIdle
  /\ ParseIdle
  /\ ConcIdle
  /\ OpsIdle
  /\ TranspIdle
  /\ LoopIdle
  /\ SeqIdle
  /\ AppIdle
  /\ GateIdle
  /\ DjIdle
  /\ MgIdle
  /\ CvIdle

\* one iteration of "for job in jobs_needing_contacts"; w and g are what
\* _try_company_website and _google_search_contacts find if they are called
EnrichBody(job, w, g) ==
  IF strip(job.company) = << >> \/ job.job_id = ""
  THEN UNCHANGED << e_results, e_cache, e_log >>
  ELSE LET key == lower(strip(job.company))
           lookup == NeedsLookup(job, e_cache)
           searched == lookup /\ ~HasContact(w)
           found == IF ~searched THEN w
                    ELSE Contacts(w.emails \o g.emails, w.linkedin_urls \o g.linkedin_urls)
           cache1 == IF lookup THEN SetKey(e_cache, key, found) ELSE e_cache
           c == IF HasContact(job.job_description) THEN job.job_description
                ELSE cache1[key]
       IN  /\ e_cache' = cache1
           /\ e_log' = e_log
                \o (IF lookup THEN << [job |-> e_i, strategy |-> "website"] >> ELSE << >>)
                \o (IF searched THEN << [job |-> e_i, strategy |-> "search"] >> ELSE << >>)
           /\ e_results' = IF HasContact(c) THEN SetKey(e_results, job.job_id, ContactEntry(c))
                           ELSE e_results

EnrichStep ==
  /\ e_pc = "loop"
  /\ e_i <= Len(e_jobs)
  /\ \E w \in WebsiteFinds, g \in SearchFinds : EnrichBody(e_jobs[e_i], w, g)
  /\ e_i' = e_i + 1
  /\ UNCHANGED << e_jobs, e_pc, notEnVars >>

\* return results
EnrichReturn ==
  /\ e_pc = "loop"
  /\ e_i > Len(e_jobs)
  /\ e_pc' = "returned"
  /\ UNCHANGED << e_jobs, e_i, e_results, e_cache, e_log, notEnVars >>

EnNext == EnrichStep \/ EnrichReturn

SpecEn == EnInit /\ [][EnNext]_vars

\* ------------------------------------------------------------------------
\* C24: in a call of enrich_jobs_with_contacts, for every job with a job_id
\* and a company: if its description holds a contact, the result maps its
\* job_id to the first email (and first LinkedIn url) of the description and
\* no lookup is made for it; lookups are made only for jobs whose description
\* holds no contact, at most one website lookup and one search per
\* lower-cased company; a job for which nothing was found is not in the
\* result.
\* ------------------------------------------------------------------------
EnEligible(job) == strip(job.company) # << >> /\ job.job_id # ""

LookupsFor(k) == { j \in 1..Len(e_log) : e_log[j].job = k }

C24_DescriptionFirstLookupOnce ==
  /\ \A k \in 1..(e_i - 1) :
       LET job == e_jobs[k] IN
         EnEligible(job) =>
           /\ HasContact(job.job_description) =>
                /\ job.job_id \in DOMAIN e_results
                /\ e_results[job.job_id] = ContactEntry(job.job_description)
                /\ LookupsFor(k) = {}
           /\ (~HasContact(job.job_description)
                 /\ ~HasContact(e_cache[lower(strip(job.company))])) =>
                job.job_id \notin DOMAIN e_results
  /\ \A j \in 1..Len(e_log) :
       /\ EnEligible(e_jobs[e_log[j].job])
       /\ ~HasContact(e_jobs[e_log[j].job].job_description)
  /\ \A i, j \in 1..Len(e_log) :
       (i # j /\ e_log[i].strategy = e_log[j].strategy) =>
         lower(e_jobs[e_log[i].job].company) # lower(e_jobs[e_log[j].job].company)
  /\ \A id \in DOMAIN e_results :
       \E k \in 1..(e_i - 1) : e_jobs[k].job_id = id /\ EnEligible(e_jobs[k])

\* two jobs of one company (in two spellings) without contact in their
\* descriptions: one lookup, found by the search, serves both
C24_Witness ==
  /\ e_pc = "returned"
  /\ Len(e_jobs) = 2
  /\ e_jobs[1].company = T_Acme
  /\ e_jobs[2].company = T_AcmePadded
  /\ ~HasContact(e_jobs[1].job_description)
  /\ ~HasContact(e_jobs[2].job_description)
  /\ Len(e_log) = 2
  /\ DOMAIN e_results = { "j1", "j2" }
  /\ e_results["j2"].poster_email = "hr@search"

\* ------------------------------------------------------------------------
\* C25: in the extractors with a structured-data strategy (Indeed, Naukri,
\* IIMJobs), for a response whose structured data yields at least one record
\* exactly those records are emitted, whatever its markup cards are; the
\* records of the markup cards are emitted only when the structured parse
\* returned no record.
\* ------------------------------------------------------------------------
StructuredRecords(extractor, items) ==
  CASE extractor = "indeed" -> parse_indeed_initial_data(items)
    [] extractor = "naukri" -> parse_naukri_json(items)
    [] extractor = "iimjobs" -> parse_iimjobs_nextdata(items)

MarkupRecords(extractor, cards) ==
  CASE extractor = "indeed" -> ExtractCards(cards, "Indeed")
    [] extractor = "naukri" -> ExtractCards(cards, "Naukri")
    [] extractor = "iimjobs" -> ExtractCards(cards, "IIMJobs")

C25_StructuredBeforeMarkup ==
  pg_pc \in { "indeed", "naukri", "iimjobs" } =>
    LET json_jobs == StructuredRecords(pg_pc, pg_items) IN
      /\ (json_jobs.exc = "" /\ json_jobs.value # << >>) => pg_out = json_jobs.value
      /\ (json_jobs.exc = "" /\ json_jobs.value = << >>) =>
           pg_out = MarkupRecords(pg_pc, pg_cards)
      /\ json_jobs.exc # "" => pg_out = << >>

\* a response with a record in its structured data and another in its cards
C25_Witness ==
  /\ pg_pc = "indeed"
  /\ StructuredRecords(pg_pc, pg_items).exc = ""
  /\ Len(StructuredRecords(pg_pc, pg_items).value) = 1
  /\ Len(MarkupRecords(pg_pc, pg_cards)) = 2
  /\ pg_out = StructuredRecords(pg_pc, pg_items).value

\* ------------------------------------------------------------------------
\* C26: when scrape_all_portals has returned, the outcome map has an entry
\* for exactly the sources that are enabled and have a scraper, every entry
\* has status 'success' or 'failed', a 'failed' entry has count 0, and the
\* returned batch is not longer than the sum of the counts; at every step an
\* entry that was written keeps its value.
\* ------------------------------------------------------------------------
RECURSIVE SumCounts(_, _)
SumCounts(results, names) ==
  IF names = << >> THEN 0
  ELSE results[Head(names)].count + SumCounts(results, Tail(names))

OutcomeMapAtReturn ==
  o_pc = "returned" =>
    /\ \A p \in PortalSet : (portal_results[p] # NoOutcome) <=> (p \in EnabledSet)
    /\ \A p \in EnabledSet :
         /\ portal_results[p].status \in { "success", "failed" }
         /\ portal_results[p].status = "failed" => portal_results[p].count = 0
    /\ Len(o_batch) <= SumCounts(portal_results, ConfigPortals)

OutcomeEntriesKept ==
  \A p \in PortalSet :
    portal_results[p] # NoOutcome => portal_results'[p] = portal_results[p]

C26_OutcomeMap == [](OutcomeMapAtReturn) /\ [][OutcomeEntriesKept]_vars

\* a run with a failed source and a source whose two records were one
\* posting
C26_Witness ==
  /\ o_pc = "returned"
  /\ \E p \in EnabledSet : portal_results[p].status = "failed"
  /\ \E p \in EnabledSet : portal_results[p].count = 2
  /\ Len(o_batch) < SumCounts(portal_results, ConfigPortals)
  /\ Len(o_batch) >= 1

\* ------------------------------------------------------------------------
\* database.py: insert_job and insert_jobs_bulk called on a table
\* ------------------------------------------------------------------------
GateLists == SeqsUpTo(BaseJobs, MaxBulk)

GateInit ==
  /\ g_store \in InitialStores
  /\ g_call = [kind |-> "none"]
  /\ DedupIdle
  /\ FetchIdle
  /\ StoreIdle
  /\ OrchIdle
  /\ ParseIdle
  /\ ConcIdle
  /\ OpsIdle
  /\ TranspIdle
  /\ LoopIdle
  /\ SeqIdle
  /\ AppIdle
  /\ EnIdle
  /\ CvIdle
  /\ MgIdle
  /\ DjIdle

\* one call insert_job(job)
GateInsertJob ==
  /\ \E job \in StoreJobs :
       LET r == insert_job(g_store, job, 1) IN
         /\ g_store' = r.store
         /\ g_call' = [kind |-> "insert_job", jobs |-> << job >>, exc |-> r.exc,
                       ret |-> r.ret, inserted |-> 0, skipped |-> 0,
                       before |-> g_store, after |-> r.store]
  /\ UNCHANGED notGateVars

\* one call insert_jobs_bulk(jobs)
GateInsertJobsBulk ==
  /\ \E jobs \in GateLists :
       LET r == insert_jobs_bulk(g_store, jobs, 1) IN
         /\ g_store' = r.store
         /\ g_call' = [kind |-> "insert_jobs_bulk", jobs |-> jobs, exc |-> r.exc,
                       ret |-> FALSE, inserted |-> r.inserted, skipped |-> r.skipped,
                       before |-> g_store, after |-> r.store]
  /\ UNCHANGED notGateVars

GateNext == GateInsertJob \/ GateInsertJobsBulk

SpecGate == GateInit /\ [][GateNext]_vars

\* the two role wordings that the fuzzy stage is to recognise as one
FuzzyRoles(a, b) ==
  \/ lower(strip(a)) = lower(strip(b))
  \/ { a, b } = { T_SeniorPM, T_SrPM }

\* a stored row that the gate is to treat as the posting of the job
GateDuplicates(st, job) ==
  { r \in st : \/ r.job_id = JobIdOf(job)
               \/ /\ NormCompany(r.company) = NormCompany(job.company)
                  /\ FuzzyRoles(r.role, job.role) }

\* C27: insert_job reports a rejection, by the exact identifier or by the
\* fuzzy match, by returning False without raising and without changing the
\* table; insert_jobs_bulk over any list returns (inserted, skipped) with
\* inserted + skipped equal to the length of the list, and the table has
\* exactly inserted rows more.
C27_RejectionIsAValue ==
  /\ (g_call.kind = "insert_job" /\ GateDuplicates(g_call.before, g_call.jobs[1]) # {}) =>
       /\ g_call.exc = ""
       /\ g_call.ret = FALSE
       /\ g_call.after = g_call.before
  /\ g_call.kind = "insert_jobs_bulk" =>
       /\ g_call.exc = ""
       /\ g_call.inserted + g_call.skipped = Len(g_call.jobs)
       /\ Cardinality(g_call.after) = Cardinality(g_call.before) + g_call.inserted

\* "ORDER BY date_found DESC LIMIT 2000"
FuzzyWindow == 2000

\* the rows of st that the query of find_similar_job selects
RecentRows(st, n) ==
  { r \in st : Cardinality({ q \in st : q.date_found > r.date_found }) < n }

\* C28: for a record whose identifier is not stored, the fuzzy stage of the
\* gate rejects it (insert_job returns False) exactly when one of the 2000
\* most recently found rows has an equal normalized company and a
\* fuzzy-matching role, whatever the locations and sources; otherwise the
\* record is admitted.
C28_FuzzyWindowDecides ==
  (g_call.kind = "insert_job" /\ ~job_exists(g_call.before, JobIdOf(g_call.jobs[1]))) =>
    LET job == g_call.jobs[1]
        match == \E r \in RecentRows(g_call.before, FuzzyWindow) :
                   /\ NormCompany(r.company) = NormCompany(job.company)
                   /\ FuzzyRoles(r.role, job.role)
    IN  /\ g_call.exc = ""
        /\ g_call.ret = (~match)
        /\ match => g_call.after = g_call.before

\* ------------------------------------------------------------------------
\* app.py: scraper_status, start_scraper, _scheduled_pipeline_run and
\* _run_scraper_pipeline. Every read and write of scraper_status is made
\* inside "with scraper_lock", so each locked block is one step.
\* ------------------------------------------------------------------------
NoTime == "<None>"

\* datetime.now().isoformat()
SomeTime == "now"

Pipelines == 1..MaxPipelines

\* the dictionary at import time
AppStatusIdle ==
  [running |-> FALSE, phase |-> "idle", error |-> NoErrorText,
   started_at |-> NoTime, finished_at |-> NoTime,
   total_jobs |-> 0, inserted |-> 0, skipped |-> 0]

\* the dictionary that an accepted start binds to scraper_status
AppStatusStarting ==
  [running |-> TRUE, phase |-> "starting", error |-> NoErrorText,
   started_at |-> SomeTime, finished_at |-> NoTime,
   total_jobs |-> 0, inserted |-> 0, skipped |-> 0]

AppJobs == { JobSeniorPM, JobSrPM }

AppStores == { { NewRow(j, 0) : j \in S } : S \in SUBSET AppJobs }

AppBatches == SeqsUpTo(AppJobs, MaxBulk)

NoPrefs == [telegram |-> FALSE, email |-> FALSE]

AppPrefs == [telegram : BOOLEAN, email : BOOLEAN]

\* str(e) of the exception a step may raise
StepErrors == { "Exception", "" }

AppInit ==
  /\ ap_vercel \in BOOLEAN
  /\ ap_status = AppStatusIdle
  /\ ap_pc = [s \in Pipelines |-> "idle"]
  /\ ap_batch = [s \in Pipelines |-> << >>]
  /\ ap_prefs = [s \in Pipelines |-> NoPrefs]
  /\ ap_store \in AppStores
  /\ ap_reqs = 0
  /\ ap_resp = [kind |-> "none", code |-> 0]
  /\ DedupIdle
  /\ FetchIdle
  /\ StoreIdle
  /\ OrchIdle
  /\ ParseIdle
  /\ ConcIdle
  /\ OpsIdle
  /\ TranspIdle
  /\ LoopIdle
  /\ SeqIdle
  /\ GateIdle
  /\ EnIdle
  /\ CvIdle
  /\ MgIdle
  /\ DjIdle

\* a thread that is not running a pipeline
FreePipeline == CHOOSE s \in Pipelines : ap_pc[s] = "idle" /\ \A q \in Pipelines : ap_pc[q] = "idle" => s <= q

\* a plausible slip: the request does not look at "running"
start_scraper_unchecked ==
  /\ ap_reqs < MaxStarts
  /\ ap_reqs' = ap_reqs + 1
  /\ IF ap_vercel
     THEN /\ ap_resp' = [kind |-> "http", code |-> 503]
          /\ UNCHANGED << ap_status, ap_pc >>
     ELSE IF \A s \in Pipelines : ap_pc[s] # "idle"
     THEN /\ ap_resp' = [kind |-> "http", code |-> 409]
          /\ UNCHANGED << ap_status, ap_pc >>
     ELSE /\ ap_status' = AppStatusStarting
          /\ ap_pc' = [ap_pc EXCEPT ![FreePipeline] = "spawned"]
          /\ ap_resp' = [kind |-> "http", code |-> 200]
  /\ UNCHANGED << ap_vercel, ap_batch, ap_prefs, ap_store, notAppVars >>

\* POST /api/scraper/start
start_scraper ==
  /\ ap_reqs < MaxStarts
  /\ ap_reqs' = ap_reqs + 1
  /\ IF ap_vercel
     THEN /\ ap_resp' = [kind |-> "http", code |-> 503]
          /\ UNCHANGED << ap_status, ap_pc >>
     ELSE IF ap_status.running
     THEN /\ ap_resp' = [kind |-> "http", code |-> 409]
          /\ UNCHANGED << ap_status, ap_pc >>
     ELSE /\ ap_status' = AppStatusStarting
          /\ ap_pc' = [ap_pc EXCEPT ![FreePipeline] = "spawned"]
          /\ ap_resp' = [kind |-> "http", code |-> 200]
  /\ UNCHANGED << ap_vercel, ap_batch, ap_prefs, ap_store, notAppVars >>

\* the daily trigger; the scheduler exists only when _IS_VERCEL is false
scheduled_pipeline_run ==
  /\ ~ap_vercel
  /\ ap_reqs < MaxStarts
  /\ ap_reqs' = ap_reqs + 1
  /\ IF ap_status.running
     THEN /\ ap_resp' = [kind |-> "scheduled", code |-> 0]
          /\ UNCHANGED << ap_status, ap_pc >>
     ELSE /\ ap_status' = AppStatusStarting
          /\ ap_pc' = [ap_pc EXCEPT ![FreePipeline] = "spawned"]
          /\ ap_resp' = [kind |-> "scheduled", code |-> 1]
  /\ UNCHANGED << ap_vercel, ap_batch, ap_prefs, ap_store, notAppVars >>

\* a plausible slip: the except clause leaves "running" as it was
PipeFailKeepsRunning(s, e) ==
  /\ ap_status' = [ap_status EXCEPT !.error = e, !.phase = "error"]
  /\ ap_pc' = [ap_pc EXCEPT ![s] = "idle"]

\* the except clause of _run_scraper_pipeline
PipeFail(s, e) ==
  /\ ap_status' = [ap_status EXCEPT !.error = e, !.phase = "error", !.running = FALSE]
  /\ ap_pc' = [ap_pc EXCEPT ![s] = "idle"]

\* the two normal ends: phase 'done', finished_at, running False
PipeDone(s) ==
  /\ ap_status' = [ap_status EXCEPT !.phase = "done", !.finished_at = SomeTime,
                                    !.running = FALSE]
  /\ ap_pc' = [ap_pc EXCEPT ![s] = "idle"]

PipeTo(s, pc, phase) ==
  /\ ap_status' = [ap_status EXCEPT !.phase = phase]
  /\ ap_pc' = [ap_pc EXCEPT ![s] = pc]

\* load_config, load_preferences, then phase 'scraping'
PipeBegin(s) ==
  /\ ap_pc[s] = "spawned"
  /\ \/ \E prefs \in AppPrefs :
          /\ ap_prefs' = [ap_prefs EXCEPT ![s] = prefs]
          /\ PipeTo(s, "scraping", "scraping")
     \/ \E e \in StepErrors : PipeFail(s, e) /\ UNCHANGED ap_prefs
  /\ UNCHANGED << ap_vercel, ap_batch, ap_store, ap_reqs, ap_resp, notAppVars >>

\* scrape_all_portals, total_jobs, the return on an empty batch, then phase
\* 'analyzing'
PipeScrape(s) ==
  /\ ap_pc[s] = "scraping"
  /\ \/ \E all_jobs_ \in AppBatches :
          /\ ap_batch' = [ap_batch EXCEPT ![s] = all_jobs_]
          /\ IF all_jobs_ = << >>
             THEN /\ ap_status' = [ap_status EXCEPT !.total_jobs = 0, !.phase = "done",
                                     !.finished_at = SomeTime, !.running = FALSE]
                  /\ ap_pc' = [ap_pc EXCEPT ![s] = "idle"]
             ELSE /\ ap_status' = [ap_status EXCEPT !.total_jobs = Len(all_jobs_),
                                     !.phase = "analyzing"]
                  /\ ap_pc' = [ap_pc EXCEPT ![s] = "analyzing"]
     \/ \E e \in StepErrors : PipeFail(s, e) /\ UNCHANGED ap_batch
  /\ UNCHANGED << ap_vercel, ap_prefs, ap_store, ap_reqs, ap_resp, notAppVars >>

\* analyze_jobs, then phase 'storing'
PipeAnalyze(s) ==
  /\ ap_pc[s] = "analyzing"
  /\ \/ PipeTo(s, "storing", "storing")
     \/ \E e \in StepErrors : PipeFail(s, e)
  /\ UNCHANGED << ap_vercel, ap_batch, ap_prefs, ap_store, ap_reqs, ap_resp, notAppVars >>

\* the storing step on the tables and batches of the model, computed once:
\* job_id set for every record, then insert_jobs_bulk
BulkResults ==
  [st \in AppStores, all_analyzed \in AppBatches |->
     insert_jobs_bulk(st, WithIds(all_analyzed), 1)]

BulkResult(st, all_analyzed) ==
  IF << st, all_analyzed >> \in DOMAIN BulkResults
  THEN BulkResults[st, all_analyzed]
  ELSE insert_jobs_bulk(st, WithIds(all_analyzed), 1)

\* generate_job_id for every record, insert_jobs_bulk, inserted and skipped,
\* then phase 'telegram_alerts' when a token and a chat are configured, else
\* phase 'enriching_contacts'
PipeStore(s) ==
  /\ ap_pc[s] = "storing"
  /\ LET r == BulkResult(ap_store, ap_batch[s]) IN
       /\ ap_store' = r.store
       /\ IF r.exc # ""
          THEN PipeFail(s, r.exc)
          ELSE /\ ap_status' = [ap_status EXCEPT !.inserted = r.inserted, !.skipped = r.skipped,
                                  !.phase = IF ap_prefs[s].telegram THEN "telegram_alerts"
                                            ELSE "enriching_contacts"]
               /\ ap_pc' = [ap_pc EXCEPT ![s] = IF ap_prefs[s].telegram THEN "telegram"
                                                ELSE "enriching"]
  /\ UNCHANGED << ap_vercel, ap_batch, ap_prefs, ap_reqs, ap_resp, notAppVars >>

\* send_telegram_alert for the qualified records, then phase
\* 'enriching_contacts'
PipeTelegram(s) ==
  /\ ap_pc[s] = "telegram"
  /\ \/ PipeTo(s, "enriching", "enriching_contacts")
     \/ \E e \in StepErrors : PipeFail(s, e)
  /\ UNCHANGED << ap_vercel, ap_batch, ap_prefs, ap_store, ap_reqs, ap_resp, notAppVars >>

\* _run_apollo_enrichment, then phase 'generating_digest'
PipeEnrich(s) ==
  /\ ap_pc[s] = "enriching"
  /\ \/ PipeTo(s, "digest", "generating_digest")
     \/ \E e \in StepErrors : PipeFail(s, e)
  /\ UNCHANGED << ap_vercel, ap_batch, ap_prefs, ap_store, ap_reqs, ap_resp, notAppVars >>

\* generate_digest and mark_sent_in_digest, then phase 'sending_email' when
\* the mail settings are present, else the normal end
PipeDigest(s) ==
  /\ ap_pc[s] = "digest"
  /\ \/ IF ap_prefs[s].email THEN PipeTo(s, "email", "sending_email") ELSE PipeDone(s)
     \/ \E e \in StepErrors : PipeFail(s, e)
  /\ UNCHANGED << ap_vercel, ap_batch, ap_prefs, ap_store, ap_reqs, ap_resp, notAppVars >>

\* send_job_email inside its own try/except, then the normal end
PipeEmail(s) ==
  /\ ap_pc[s] = "email"
  /\ PipeDone(s)
  /\ UNCHANGED << ap_vercel, ap_batch, ap_prefs, ap_store, ap_reqs, ap_resp, notAppVars >>

PipeStep(s) ==
  \/ PipeBegin(s)
  \/ PipeScrape(s)
  \/ PipeAnalyze(s)
  \/ PipeStore(s)
  \/ PipeTelegram(s)
  \/ PipeEnrich(s)
  \/ PipeDigest(s)
  \/ PipeEmail(s)

AppNext ==
  \/ start_scraper
  \/ scheduled_pipeline_run
  \/ \E s \in Pipelines : PipeStep(s)

SpecApp == AppInit /\ [][AppNext]_vars

\* every step of a started pipeline returns or raises
SpecAppFair == SpecApp /\ \A s \in Pipelines : WF_vars(PipeStep(s))

\* ------------------------------------------------------------------------
\* C29: under every interleaving of start requests, scheduled triggers and
\* pipeline steps at most one pipeline thread exists at a time, and a start
\* request or trigger handled while the status says running starts no
\* pipeline, leaves the status dictionary as it is, and an HTTP request is
\* answered 409.
\* ------------------------------------------------------------------------
Executing == { s \in Pipelines : ap_pc[s] # "idle" }

AtMostOnePipeline == Cardinality(Executing) <= 1

RefusedWhileRunning ==
  (ap_status.running /\ ap_reqs' # ap_reqs) =>
    /\ ap_status' = ap_status
    /\ ap_pc' = ap_pc
    /\ ap_resp'.kind = "http" => ap_resp'.code = 409

C29_SingleRunningPipeline == [](AtMostOnePipeline) /\ [][RefusedWhileRunning]_vars

\* a request answered 409 while a pipeline is in its storing step
C29_Witness ==
  /\ ap_status.running
  /\ ap_resp = [kind |-> "http", code |-> 409]
  /\ \E s \in Pipelines : ap_pc[s] = "storing"

\* ------------------------------------------------------------------------
\* C30: when every step returns or raises, a started pipeline reaches
\* running = False with phase 'done' (finished_at set, error None) or phase
\* 'error' (error set); the phase only moves forward in the order starting,
\* scraping, analyzing, storing, telegram_alerts, enriching_contacts,
\* generating_digest, sending_email, done, or to 'error'; and while running
\* is False the dictionary changes only by an accepted start.
\* ------------------------------------------------------------------------
PhaseOrder ==
  << "starting", "scraping", "analyzing", "storing", "telegram_alerts",
     "enriching_contacts", "generating_digest", "sending_email", "done", "error" >>

PhaseRank(phase) ==
  IF \E k \in 1..Len(PhaseOrder) : PhaseOrder[k] = phase
  THEN CHOOSE k \in 1..Len(PhaseOrder) : PhaseOrder[k] = phase
  ELSE 0

EndOfRun ==
  ~ap_status.running =>
    /\ ap_status.phase \in { "idle", "done", "error" }
    /\ ap_status.phase = "done" =>
         ap_status.finished_at # NoTime /\ ap_status.error = NoErrorText
    /\ ap_status.phase = "error" => ap_status.error # NoErrorText

PhasesAdvance ==
  ap_status'.phase # ap_status.phase =>
    \/ ap_status' = AppStatusStarting
    \/ /\ PhaseRank(ap_status'.phase) > PhaseRank(ap_status.phase)
       /\ ap_status.phase \notin { "done", "error" }

FrozenWhenNotRunning ==
  ~ap_status.running => (ap_status' = ap_status \/ ap_status' = AppStatusStarting)

C30_PipelineCompletion ==
  /\ \A s \in Pipelines :
       (ap_pc[s] # "idle") ~> (~ap_status.running /\ ap_status.phase \in { "done", "error" })
  /\ [](EndOfRun)
  /\ [][PhasesAdvance /\ FrozenWhenNotRunning]_vars

\* a run that went through every phase, the mail included, and ended 'done'
C30_Witness ==
  /\ ~ap_status.running
  /\ ap_status.phase = "done"
  /\ ap_status.skipped = 2
  /\ \E s \in Pipelines : ap_prefs[s] = [telegram |-> TRUE, email |-> TRUE]

====
